---- MODULE Spec2Model ----
(***************************************************************************)
(* Verification model of the publishing dashboard's adapters:              *)
(*   - src/src/graph_mail.py    Microsoft Graph mail (single, bulk, batch), *)
(*                              footer / inline-image HTML helpers          *)
(*   - src/src/ui_components.py display_posts, "Publicar ahora"             *)
(*   - src/src/linkedin.py      LinkedInClient.post and the metric queries  *)
(* Each component is a state machine over its own variables; the other      *)
(* components' variables stay at their idle values in its specification.    *)
(***************************************************************************)
EXTENDS Integers, Sequences, FiniteSets, TLC

VARIABLES
    \* ---- graph_mail.py: send_mail_graph_bulk / send_mail_graph_batch ----
    fn,                 \* which sender was called: "bulk" or "batch"
    receivers,          \* the receivers argument (a list of addresses)
    batch_size,         \* the batch_size argument (batch sender only)
    env,                \* the MICROSOFT_* environment variables that are set
    token_response,     \* what the token request answers
    db_logging,         \* whether the db_config logging functions were imported
    pc,                 \* "call", "loop", "done", or how the sender was left
    idx,                \* bulk: enumerate index (1-based); batch: batch_num (0-based)
    email_index,        \* batch: running recipient counter
    send_log_id,        \* None or the id create_email_send_log returned
    successful_emails,
    failed_emails,
    calls,              \* progress callbacks, HTTP sends and sleeps, in order
    log_calls,          \* calls of the db logging functions, in order
    result,             \* the returned dict, None while running
    \* ---- graph_mail.py: the HTML body every sender builds ----
    content_text,       \* the content_text argument
    content_html,       \* the content_html argument, None or HTML
    attachments,        \* the attachments argument (file paths)
    inline_images,      \* the inline_images argument, then the effective flag
    html,               \* the body under construction
    html0,              \* the body as ensure_html_string returned it
    img_tags,           \* img_tags_to_add of build_attachments_payload
    hpc,                \* position in the body's construction
    \* ---- ui_components.py: display_posts ----
    platform,           \* post id -> the post's platform
    contacts,           \* post id -> number of contacts of the post
    media,              \* post id -> whether the post has media files on disk
    sent_at,            \* post id -> NoTime, or when the post was marked sent
    delivered,          \* post id -> whether a platform ever accepted the post
    cache,              \* the listings (st.cache_data) that hold cached data
    now,                \* the clock
    publish_log,        \* what each "Publicar ahora" did, in order
    \* ---- linkedin.py: LinkedInClient.post ----
    video_path,         \* the video_path argument
    image_paths,        \* the image_paths argument
    lpc,                \* position in post
    pending,            \* the files still to register and upload
    asset_urn,          \* the asset registered last
    asset_urns,         \* the assets of the files uploaded so far
    media_category,
    payload,            \* the ugcPosts payload, None until built
    requests,           \* the HTTP requests made, in order
    \* ---- linkedin.py: get_post_metrics / get_post_metrics_advanced ----
    mfn,                \* which query was called
    stats,              \* get_post_metrics: totalShareStatistics of an element
    aggregation,        \* get_post_metrics_advanced: "TOTAL" or "DAILY"
    metrics_types,      \* the metric types still to query
    post_metrics,       \* the row under construction (a dict)
    row,                \* the finished row of the table
    mpc,                \* position in the query
    api_elements,       \* DAILY: metric type -> the elements of its 200 answer
    \* ---- linkedin.py: get_post_metrics, the ids it queries ----
    post_ids_form,      \* the post_ids argument is "None", a "str" or a "list"
    post_ids,           \* the ids given (a str is held as the list of itself)
    valid_post_ids,     \* the share ids kept for the request
    qpc,                \* position in get_post_metrics
    stat_requests,      \* the statistics requests made: their shares lists
    qresult,            \* what was returned: None or "DataFrame"
    \* ---- ui_components.py: the posts, their cached listings and the handlers ----
    db,                 \* post id -> the post's row in the database
    cached,             \* listing -> whether it holds cached rows, and the rows
    ui_events,          \* the kinds of handler runs that have happened
    \* ---- auto_analytics.py: main, the polling loop ----
    interval,           \* AUTO_ANALYTICS_INTERVAL, in seconds
    spc,                \* position in main's loop
    cycles,             \* number of cycles started
    last_cycle,         \* how the last cycle ended
    waits,              \* the sleeps that ended, in order: after what, how long
    interrupted,        \* whether a KeyboardInterrupt was raised
    \* ---- auto_analytics.py: collect_follower_growth ----
    fm_table,           \* the committed rows of linkedin_follower_metrics
    fm_session,         \* the rows as the session sees them (flushed, not committed)
    df_growth,          \* the rows get_follower_growth returned, sorted by fecha
    fpc,                \* position in collect_follower_growth
    frow,               \* index of the row being stored
    records_saved,
    fruns,              \* number of runs started
    freturned,          \* what the last finished run returned
    run_outcome,        \* how the last finished run ended
    prev_outcome,       \* how the run before it ended
    same_data,          \* whether the run got the data of the run before it
    rows_before,        \* number of rows in the table when the run started
    reported,           \* day -> the gain the last run with that day reported
    saved,              \* day -> the gain the last committed run with that day reported
    \* ---- auth.py: check_password and login_form ----
    app_username,       \* APP_USERNAME in the environment, None when unset
    app_password,       \* APP_PASSWORD in the environment, None when unset
    session_state,      \* st.session_state: empty, or with the key authenticated
    script_runs,        \* number of runs of the page's script
    check_returns,      \* what check_password saw and returned, in order
    logins,             \* the credentials submitted with the login button, in order
    \* ---- graph_mail.py: send_mail_graph ----
    g_env,              \* the environment variables that are set
    g_receivers,        \* the receivers argument
    g_token_response,   \* what the token request answers
    gpc,                \* "call", "post", "returned" or "raised"
    g_calls,            \* the token requests and HTTP sends made, in order
    g_returned,         \* the value returned, None before the return
    \* ---- auto_analytics.py: collect_linkedin_metrics ----
    lm_table,           \* the committed rows of linkedin_metrics, in insertion order
    lm_session,         \* the rows as the session sees them (added, not committed)
    posts_data,         \* the post ids get_recent_posts_details returned
    df_metrics,         \* post id -> impresiones of its metrics row, or no row
    cpc,                \* "idle", "rows", "commit" or "done"
    cpost,              \* the position in posts_data of the loop
    metrics_saved,      \* the counter of the loop
    ccycle,             \* the number of the run
    creturned,          \* what the last run returned
    collect_outcome,    \* how the last run ended
    table_before,       \* lm_table when the run started
    \* ---- linkedin.py: get_follower_segmentation ----
    pivot_type,         \* the argument
    seg_response,       \* the HTTP answer: status and the count lists of its element
    seg_requests,       \* the number of HTTP requests made
    seg_result,         \* what is returned: None, or a table of rows
    segpc,              \* "call", "request" or "done"
    \* ---- linkedin.py: get_follower_growth ----
    gr_response,        \* the HTTP answer: status and elements
    gr_data,            \* the rows appended for the elements, in their order
    gr_result,          \* what is returned: None, or a table of rows
    grpc,               \* "call", "table" or "done"
    \* ---- ui_components.py: display_post_editor, section "Programacion" ----
    ed_platform,        \* post['platform']
    selected_media_ids, \* st.session_state selected_media_ids_<post_id>
    ed_time,            \* the schedule time the user means, in minutes
    ed_now,             \* datetime.now(), in minutes
    ed_post,            \* the row of the post in the database
    ed_cache,           \* TRUE while st.cache_data holds entries
    selected_pub_id,    \* the post the editor shows, or None
    ed_messages,        \* what the handler showed, in order
    ed_button,          \* the button pressed, or None
    edpc                \* "editor", "handled", or "off"

mailVars == <<fn, receivers, batch_size, env, token_response, db_logging, pc, idx,
              email_index, send_log_id, successful_emails, failed_emails, calls,
              log_calls, result>>

htmlVars == <<content_text, content_html, attachments, inline_images, html,
              html0, img_tags, hpc>>

pubVars == <<platform, contacts, media, sent_at, delivered, cache, now,
             publish_log>>

postVars == <<video_path, image_paths, lpc, pending, asset_urn, asset_urns,
              media_category, payload, requests>>

metricVars == <<mfn, stats, aggregation, metrics_types, post_metrics, row, mpc,
               api_elements>>

shareVars == <<post_ids_form, post_ids, valid_post_ids, qpc, stat_requests, qresult>>

uiVars == <<db, cached, ui_events>>

serviceVars == <<interval, spc, cycles, last_cycle, waits, interrupted>>

followerVars == <<fm_table, fm_session, df_growth, fpc, frow, records_saved, fruns, freturned, run_outcome, prev_outcome, same_data, rows_before, reported, saved>>

authVars == <<app_username, app_password, session_state, script_runs, check_returns, logins>>

singleVars == <<g_env, g_receivers, g_token_response, gpc, g_calls, g_returned>>

collectVars == <<lm_table, lm_session, posts_data, df_metrics, cpc, cpost,
                metrics_saved, ccycle, creturned, collect_outcome,
                table_before>>

segmentVars == <<pivot_type, seg_response, seg_requests, seg_result, segpc>>

growthVars == <<gr_response, gr_data, gr_result, grpc>>

editorVars == <<ed_platform, selected_media_ids, ed_time, ed_now, ed_post, ed_cache, selected_pub_id, ed_messages, ed_button, edpc>>

vars == <<mailVars, htmlVars, pubVars, postVars, metricVars, shareVars,
          uiVars, serviceVars, followerVars, authVars, singleVars,
          collectVars, segmentVars, growthVars, editorVars>>

None == "None"

\* ------------------------------------------------------------------------
\* Bounds of the model
\* ------------------------------------------------------------------------
MaxRecv == 3
MaxBatchSize == 2
MaxHtmlLen == 3
MaxTextLen == 2
MaxContacts == 2
MaxClock == 3
MaxImages == 3
MaxCount == 2
MaxImpressions == 3
MaxIds == 22
MaxOtherIds == 2
MaxRev == 1
MaxCycles == 4
MaxRows == 2
MaxRuns == 3
MaxPosts == 2
MaxItems == 2
MaxFollowers == 2
MaxElements == 3
MaxScriptRuns == 3

\* ------------------------------------------------------------------------
\* Generic helpers
\* ------------------------------------------------------------------------
SeqsUpTo(S, n) == UNION {[1..k -> S] : k \in 0..n}

Min(a, b) == IF a < b THEN a ELSE b

RECURSIVE SelectSeq_(_, _, _)
SelectSeq_(s, keep, i) ==
    IF i > Len(s) THEN <<>>
    ELSE (IF i \in keep THEN <<s[i]>> ELSE <<>>) \o SelectSeq_(s, keep, i + 1)

\* The subsequence of s at the positions in keep, in order.
AtPositions(s, keep) == SelectSeq_(s, keep, 1)

\* Number of positions of s holding x.
Count(s, x) == Cardinality({i \in 1..Len(s) : s[i] = x})

\* ------------------------------------------------------------------------
\* The components at rest
\* ------------------------------------------------------------------------
IdleMail ==
    /\ fn = "idle" /\ receivers = <<>> /\ batch_size = 1 /\ env = {}
    /\ token_response = "error" /\ db_logging = FALSE /\ pc = "idle"
    /\ idx = 0 /\ email_index = 0 /\ send_log_id = None
    /\ successful_emails = <<>> /\ failed_emails = <<>> /\ calls = <<>>
    /\ log_calls = <<>> /\ result = None

IdleHtml ==
    /\ content_text = <<>> /\ content_html = <<>> /\ attachments = <<>>
    /\ inline_images = FALSE /\ html = <<>> /\ html0 = <<>> /\ img_tags = <<>>
    /\ hpc = "idle"

PostIds == {"p1", "p2"}

NoTime == 0

IdlePub ==
    /\ platform = [p \in PostIds |-> "idle"] /\ contacts = [p \in PostIds |-> 0]
    /\ media = [p \in PostIds |-> FALSE] /\ sent_at = [p \in PostIds |-> NoTime]
    /\ delivered = [p \in PostIds |-> FALSE] /\ cache = {} /\ now = 1
    /\ publish_log = <<>>

\* A list argument left at None.
NoList == <<None>>

NoPayload == [shareMediaCategory |-> None, keys |-> {}, media |-> <<>>]

IdlePost ==
    /\ video_path = None /\ image_paths = NoList /\ lpc = "idle"
    /\ pending = <<>> /\ asset_urn = 0 /\ asset_urns = <<>>
    /\ media_category = None /\ payload = NoPayload /\ requests = <<>>

IdleMetrics ==
    /\ mfn = "idle" /\ stats = <<>> /\ aggregation = "TOTAL"
    /\ metrics_types = <<>> /\ post_metrics = <<>> /\ row = <<>> /\ mpc = "idle"
    /\ api_elements = <<>>

IdleShares ==
    /\ post_ids_form = "None" /\ post_ids = <<>> /\ valid_post_ids = <<>>
    /\ qpc = "idle" /\ stat_requests = <<>> /\ qresult = None

IdleUi ==
    /\ db = <<>> /\ cached = <<>> /\ ui_events = {}

IdleService ==
    /\ interval = 0 /\ spc = "idle" /\ cycles = 0 /\ last_cycle = None
    /\ waits = <<>> /\ interrupted = FALSE

IdleFollowers ==
    /\ fm_table = <<>> /\ fm_session = <<>> /\ df_growth = <<>> /\ fpc = "off"
    /\ frow = 0 /\ records_saved = 0 /\ fruns = 0 /\ freturned = 0
    /\ run_outcome = None /\ prev_outcome = None /\ same_data = FALSE
    /\ rows_before = 0 /\ reported = <<>> /\ saved = <<>>

IdleAuth ==
    /\ app_username = None /\ app_password = None /\ session_state = <<>>
    /\ script_runs = 0 /\ check_returns = <<>> /\ logins = <<>>

IdleSingle ==
    /\ g_env = {} /\ g_receivers = <<>> /\ g_token_response = None
    /\ gpc = "idle" /\ g_calls = <<>> /\ g_returned = None

IdleCollect ==
    /\ lm_table = <<>> /\ lm_session = <<>> /\ posts_data = <<>>
    /\ df_metrics = [p \in {"urn:li:share:1", "urn:li:share:2"} |-> 0]
    /\ cpc = "off" /\ cpost = 0 /\ metrics_saved = 0
    /\ ccycle = 0 /\ creturned = 0 /\ collect_outcome = None
    /\ table_before = <<>>

IdleSegment ==
    /\ pivot_type = None /\ seg_response = None /\ seg_requests = 0
    /\ seg_result = [table |-> FALSE, rows |-> <<>>] /\ segpc = "idle"

IdleGrowth ==
    /\ gr_response = [status |-> 0, elements |-> <<>>] /\ gr_data = <<>>
    /\ gr_result = [table |-> FALSE, rows |-> <<>>] /\ grpc = "idle"

IdleEditor ==
    /\ ed_platform = "Gmail" /\ selected_media_ids = {} /\ ed_time = 1
    /\ ed_now = 1 /\ ed_post = [fecha_hora |-> NoTime, sent_at |-> NoTime,
                                 media |-> {}, rev |-> 0]
    /\ ed_cache = FALSE /\ selected_pub_id = None /\ ed_messages = <<>>
    /\ ed_button = None /\ edpc = "off"

MailOnly == UNCHANGED <<htmlVars, pubVars, postVars, metricVars, shareVars,
                        uiVars, serviceVars, followerVars, authVars,
                        singleVars, collectVars, segmentVars, growthVars,
                        editorVars>>

HtmlOnly == UNCHANGED <<mailVars, pubVars, postVars, metricVars, shareVars,
                        uiVars, serviceVars, followerVars, authVars,
                        singleVars, collectVars, segmentVars, growthVars,
                        editorVars>>

PubOnly == UNCHANGED <<mailVars, htmlVars, postVars, metricVars, shareVars,
                       uiVars, serviceVars, followerVars, authVars,
                       singleVars, collectVars, segmentVars, growthVars,
                       editorVars>>

PostOnly == UNCHANGED <<mailVars, htmlVars, pubVars, metricVars, shareVars,
                        uiVars, serviceVars, followerVars, authVars,
                        singleVars, collectVars, segmentVars, growthVars,
                        editorVars>>

MetricsOnly == UNCHANGED <<mailVars, htmlVars, pubVars, postVars, shareVars,
                           uiVars, serviceVars, followerVars, authVars,
                           singleVars, collectVars, segmentVars, growthVars,
                           editorVars>>

SharesOnly == UNCHANGED <<mailVars, htmlVars, pubVars, postVars, metricVars,
                          uiVars, serviceVars, followerVars, authVars,
                          singleVars, collectVars, segmentVars, growthVars,
                          editorVars>>

UiOnly == UNCHANGED <<mailVars, htmlVars, pubVars, postVars, metricVars,
                      shareVars, serviceVars, followerVars, authVars,
                      singleVars, collectVars, segmentVars, growthVars,
                      editorVars>>

ServiceOnly == UNCHANGED <<mailVars, htmlVars, pubVars, postVars, metricVars,
                           shareVars, uiVars, followerVars, authVars,
                           singleVars, collectVars, segmentVars, growthVars,
                           editorVars>>

FollowersOnly == UNCHANGED <<mailVars, htmlVars, pubVars, postVars,
                             metricVars, shareVars, uiVars, serviceVars,
                             authVars, singleVars, collectVars, segmentVars,
                             growthVars, editorVars>>

AuthOnly == UNCHANGED <<mailVars, htmlVars, pubVars, postVars, metricVars,
                        shareVars, uiVars, serviceVars, followerVars,
                        singleVars, collectVars, segmentVars, growthVars,
                        editorVars>>

SingleOnly == UNCHANGED <<mailVars, htmlVars, pubVars, postVars, metricVars,
                          shareVars, uiVars, serviceVars, followerVars,
                          authVars, collectVars, segmentVars, growthVars,
                          editorVars>>

CollectOnly == UNCHANGED <<mailVars, htmlVars, pubVars, postVars, metricVars,
                           shareVars, uiVars, serviceVars, followerVars,
                           authVars, singleVars, segmentVars, growthVars,
                           editorVars>>

SegmentOnly == UNCHANGED <<mailVars, htmlVars, pubVars, postVars, metricVars,
                           shareVars, uiVars, serviceVars, followerVars,
                           authVars, singleVars, collectVars, growthVars,
                           editorVars>>

GrowthOnly == UNCHANGED <<mailVars, htmlVars, pubVars, postVars, metricVars,
                          shareVars, uiVars, serviceVars, followerVars,
                          authVars, singleVars, collectVars, segmentVars,
                          editorVars>>

EditorOnly == UNCHANGED <<mailVars, htmlVars, pubVars, postVars, metricVars,
                          shareVars, uiVars, serviceVars, followerVars,
                          authVars, singleVars, collectVars, segmentVars,
                          growthVars>>

\* ------------------------------------------------------------------------
\* graph_mail.py: configuration and token
\* ------------------------------------------------------------------------
Emails == {"ana@x.org", "ben@x.org"}

GraphEnvVars == {"MICROSOFT_CLIENT_ID", "MICROSOFT_TENANT_ID",
                 "MICROSOFT_CLIENT_SECRET", "MICROSOFT_SENDER_EMAIL"}

\* get_graph_config: None unless all four variables are set.
get_graph_config(e) == IF GraphEnvVars \subseteq e THEN "config" ELSE None

TokenResponses == {"access_token", "error", "no_msal"}

\* get_access_token: msal present, configuration complete, token in the answer.
get_access_token(e, resp) ==
    IF resp = "no_msal" THEN None
    ELSE IF get_graph_config(e) = None THEN None
    ELSE IF resp = "access_token" THEN "token"
    ELSE None

\* ------------------------------------------------------------------------
\* graph_mail.py: records of the outside world
\* ------------------------------------------------------------------------
\* One entry of calls: op is "progress", "post", "batch" or "sleep" (and
\* "token" for a token request of send_mail_graph); at holds
\* the recipient positions concerned (1-based for bulk, the 0-based request
\* ids for a batch); res is the HTTP outcome, or what time.sleep was called
\* with; body holds the sub-responses of
\* a batch answered with 200, as <<id, status>> pairs.
Call(op, at, res, body) == [op |-> op, at |-> at, res |-> res, body |-> body]

\* One entry of log_calls: a call of create_email_send_log,
\* add_email_send_result or complete_email_send_log; raised tells whether the
\* call raised (nothing is stored then).
LogCall(op, email, success, counts, raised) ==
    [op |-> op, email |-> email, success |-> success, counts |-> counts,
     raised |-> raised]

\* What a single sendMail POST can do: accepted, another status, or a
\* requests.exceptions.RequestException.
HttpOutcomes == {"202", "other", "conn"}

\* response.status_code == 202
AcceptedBoth(outcome) == outcome \in {"202", "other"}
Accepted(outcome) == outcome = "202"

FailedEntry(email, error) == [email |-> email, error |-> error]

\* The result dict of both bulk senders.
ResultDict(total, succ, failed) ==
    [total |-> total, successful |-> Len(succ), failed |-> Len(failed),
     successful_emails |-> succ, failed_emails |-> failed]

\* [{'email': e, 'error': msg} for e in receivers]
AllFailedReversed(rcv, error) ==
    [i \in 1..Len(rcv) |-> FailedEntry(rcv[Len(rcv) + 1 - i], error)]
AllFailed(rcv, error) == [i \in 1..Len(rcv) |-> FailedEntry(rcv[i], error)]

\* What happens after a db logging call raised: the except clause around
\* every logging call prints and goes on.
OnLogErrorPropagate == "raise"
OnLogError == "continue"

\* `if send_log_id and add_email_send_result:` then the guarded call; the
\* entries to append to log_calls for one recipient outcome.
AddResultCalls(log_id, logging, email, success, raised) ==
    IF log_id # None /\ logging
    THEN <<LogCall("add_email_send_result", email, success, <<>>, raised)>>
    ELSE <<>>

\* ------------------------------------------------------------------------
\* send_mail_graph_bulk / send_mail_graph_batch: entry
\* ------------------------------------------------------------------------
\* The early returns shared by both senders: empty receivers, missing
\* configuration, no token. Otherwise the send log is created (best effort)
\* and the loop starts.
Enter(tokenError) ==
    /\ pc = "call"
    /\ IF Len(receivers) = 0
       THEN /\ result' = ResultDict(0, <<>>, <<>>)
            /\ pc' = "done"
            /\ UNCHANGED <<send_log_id, log_calls>>
       ELSE IF get_graph_config(env) = None
       THEN /\ result' = ResultDict(Len(receivers), <<>>,
                              AllFailed(receivers, "Configuracion incompleta"))
            /\ pc' = "done"
            /\ UNCHANGED <<send_log_id, log_calls>>
       ELSE IF get_access_token(env, token_response) = None
       THEN /\ result' = ResultDict(Len(receivers), <<>>,
                              AllFailed(receivers, tokenError))
            /\ pc' = "done"
            /\ UNCHANGED <<send_log_id, log_calls>>
       ELSE /\ IF db_logging
               THEN \E raised \in BOOLEAN :
                       /\ log_calls' = Append(log_calls,
                              LogCall("create_email_send_log", "", FALSE,
                                      <<Len(receivers)>>, raised))
                       /\ send_log_id' = IF raised THEN None ELSE "log1"
                       /\ pc' = IF raised /\ OnLogError = "raise"
                                THEN "raised" ELSE "loop"
               ELSE /\ UNCHANGED <<send_log_id, log_calls>>
                    /\ pc' = "loop"
            /\ UNCHANGED result
    /\ UNCHANGED <<fn, receivers, batch_size, env, token_response, db_logging,
                   idx, email_index, successful_emails, failed_emails, calls>>
    /\ MailOnly

BulkEnter == fn = "bulk" /\ Enter("No se pudo obtener token de acceso")

BatchEnter == fn = "batch" /\ Enter("No se pudo obtener token")

\* ------------------------------------------------------------------------
\* send_mail_graph_bulk: one iteration of the loop over receivers
\* ------------------------------------------------------------------------
\* `if idx < total: time.sleep(delay_between_emails)`
PauseAlways(i, total) == TRUE
PauseAfter(i, total) == i < total

\* The loop goes on to the next recipient whatever the outcome was.
StopOnFailure(i, total, ok) == IF ok THEN i + 1 ELSE total + 1
NextRecipient(i, total, ok) == i + 1

\* The error text stored with a failed recipient.
BulkError(outcome) == IF outcome = "conn" THEN "Error de conexion" ELSE "HTTP"

BulkSend ==
    /\ fn = "bulk"
    /\ pc = "loop"
    /\ idx <= Len(receivers)
    /\ \E outcome \in HttpOutcomes, raised \in BOOLEAN :
         LET total == Len(receivers)
             receiver_email == receivers[idx]
             ok == Accepted(outcome)
             added == AddResultCalls(send_log_id, db_logging, receiver_email,
                                     ok, raised)
             aborted == added # <<>> /\ raised /\ OnLogError = "raise"
         IN  /\ (added = <<>>) => ~raised
             /\ successful_emails' =
                    IF ok THEN Append(successful_emails, receiver_email)
                    ELSE successful_emails
             /\ failed_emails' =
                    IF ok THEN failed_emails
                    ELSE Append(failed_emails,
                                FailedEntry(receiver_email, BulkError(outcome)))
             /\ log_calls' = log_calls \o added
             /\ calls' = calls
                    \o <<Call("progress", <<idx>>, "", <<>>),
                        Call("post", <<idx>>, outcome, <<>>)>>
                    \o (IF ~aborted /\ PauseAfter(idx, total)
                        THEN <<Call("sleep", <<>>, "delay_between_emails",
                                    <<>>)>>
                        ELSE <<>>)
             /\ idx' = NextRecipient(idx, total, ok)
             /\ pc' = IF aborted THEN "raised" ELSE "loop"
    /\ UNCHANGED <<fn, receivers, batch_size, env, token_response, db_logging,
                   email_index, send_log_id, result>>
    /\ MailOnly

\* ------------------------------------------------------------------------
\* send_mail_graph_batch: one iteration of the loop over batches
\* ------------------------------------------------------------------------
\* batches_needed = (total + batch_size - 1) // batch_size
batches_needed(total, bs) == (total + bs - 1) \div bs

\* The request ids of batch batch_num: str(batch_start + i) for the
\* recipients receivers[batch_start:batch_end].
BatchIdsLocal(batch_num, bs, total) ==
    LET batch_start == batch_num * bs
        batch_end == Min(batch_start + bs, total)
    IN  [i \in 1..(batch_end - batch_start) |-> i - 1]
BatchIds(batch_num, bs, total) ==
    LET batch_start == batch_num * bs
        batch_end == Min(batch_start + bs, total)
    IN  [i \in 1..(batch_end - batch_start) |-> batch_start + i - 1]

\* `if batch_num < batches_needed - 1: time.sleep(0.5)`
BatchPause(batch_num, needed) == batch_num < needed - 1

\* What Graph can answer to one $batch request: a connection error, a status
\* other than 200, or 200 with a list of sub-responses, the last of which
\* may be one the loop cannot read (the exception then leaves the function,
\* pc = "response_error"). A sub-response names
\* the id of one of the batch's requests and a status (202 or another; a
\* missing status counts as 500); the list is in any order, and nothing in
\* the sender makes it hold every request id, or any id only once. raised
\* tells whether the logging call made for the sub-response raises.
SubStatuses == {"202", "other"}

SubResponses(ids, canRaise) ==
    SeqsUpTo([id : {ids[i] : i \in 1..Len(ids)}, status : SubStatuses,
              raised : IF canRaise THEN BOOLEAN ELSE {FALSE}], Len(ids))

\* A sub-response whose "id" is missing, is no number or is no position of
\* receivers: `request_id = int(resp["id"])` or `receivers[request_id]`
\* raises a KeyError, ValueError or IndexError, which the
\* `except requests.exceptions.RequestException` around the batch does not
\* catch. It stands in the body of a call with the id len(receivers).
BadId(total) == total

\* `for resp in batch_response.get("responses", [])`: each sub-response puts
\* receivers[int(resp["id"])] into one of the two lists and logs it.
RECURSIVE HandleResponses(_, _, _)
HandleResponses(resps, i, acc) ==
    IF i > Len(resps) \/ acc.aborted THEN acc
    ELSE LET resp == resps[i]
             receiver_email == receivers[resp.id + 1]
             ok == Accepted(resp.status)
             added == AddResultCalls(send_log_id, db_logging, receiver_email,
                                     ok, resp.raised)
         IN  HandleResponses(resps, i + 1,
                 [succ |-> IF ok THEN Append(acc.succ, receiver_email)
                           ELSE acc.succ,
                  failed |-> IF ok THEN acc.failed
                             ELSE Append(acc.failed,
                                         FailedEntry(receiver_email, "HTTP")),
                  logs |-> acc.logs \o added,
                  aborted |-> added # <<>> /\ resp.raised
                              /\ OnLogError = "raise"])

\* A batch that failed as a whole: every recipient of the batch is failed.
RECURSIVE FailBatch(_, _, _, _)
FailBatch(ids, i, failed, error) ==
    IF i > Len(ids) THEN failed
    ELSE FailBatch(ids, i + 1,
                   Append(failed, FailedEntry(receivers[ids[i] + 1], error)),
                   error)

ProgressCalls(ids, done) ==
    [i \in 1..Len(ids) |-> Call("progress", <<done + i>>, "", <<>>)]

BatchSend ==
    /\ fn = "batch"
    /\ pc = "loop"
    /\ idx < batches_needed(Len(receivers), batch_size)
    /\ LET total == Len(receivers)
           ids == BatchIds(idx, batch_size, total)
           pause == IF BatchPause(idx, batches_needed(total, batch_size))
                    THEN <<Call("sleep", <<>>, "0.5", <<>>)>> ELSE <<>>
           start == [succ |-> successful_emails, failed |-> failed_emails,
                     logs |-> <<>>, aborted |-> FALSE]
       IN  /\ email_index' = email_index + Len(ids)
           /\ \/ \E outcome \in {"other", "conn"} :
                   /\ failed_emails' = FailBatch(ids, 1, failed_emails,
                          IF outcome = "conn" THEN "Error de conexion en batch"
                          ELSE "Batch fallo")
                   /\ calls' = calls \o ProgressCalls(ids, email_index)
                                \o <<Call("batch", ids, outcome, <<>>)>> \o pause
                   /\ pc' = "loop"
                   /\ UNCHANGED <<successful_emails, log_calls>>
              \/ \E resps \in SubResponses(ids, send_log_id # None /\ db_logging) :
                   LET acc == HandleResponses(resps, 1, start)
                   IN  /\ successful_emails' = acc.succ
                       /\ failed_emails' = acc.failed
                       /\ log_calls' = log_calls \o acc.logs
                       /\ calls' = calls \o ProgressCalls(ids, email_index)
                                    \o <<Call("batch", ids, "200",
                                           [i \in 1..Len(resps) |->
                                              <<resps[i].id, resps[i].status>>])>>
                                    \o (IF acc.aborted THEN <<>> ELSE pause)
                       /\ pc' = IF acc.aborted THEN "raised" ELSE "loop"
              \/ \E resps \in SubResponses(ids, send_log_id # None /\ db_logging) :
                   LET acc == HandleResponses(resps, 1, start)
                   IN  /\ Len(resps) < Len(ids)
                       /\ ~acc.aborted
                       /\ successful_emails' = acc.succ
                       /\ failed_emails' = acc.failed
                       /\ log_calls' = log_calls \o acc.logs
                       /\ calls' = calls \o ProgressCalls(ids, email_index)
                                    \o <<Call("batch", ids, "200",
                                           [i \in 1..Len(resps) |->
                                              <<resps[i].id, resps[i].status>>]
                                           \o <<<<BadId(total), "202">>>>)>>
                       /\ pc' = "response_error"
           /\ idx' = idx + 1
    /\ UNCHANGED <<fn, receivers, batch_size, env, token_response, db_logging,
                   send_log_id, result>>
    /\ MailOnly

\* ------------------------------------------------------------------------
\* Both senders: the result dict and the completion of the send log
\* ------------------------------------------------------------------------
LoopOver ==
    IF fn = "bulk" THEN idx > Len(receivers)
    ELSE idx >= (Len(receivers) + batch_size - 1) \div batch_size

Finish ==
    /\ pc = "loop"
    /\ LoopOver
    /\ \E raised \in BOOLEAN :
         LET res == ResultDict(Len(receivers), successful_emails, failed_emails)
             completing == send_log_id # None /\ db_logging
         IN  /\ completing \/ ~raised
             /\ log_calls' =
                    IF completing
                    THEN Append(log_calls,
                             LogCall("complete_email_send_log", "", FALSE,
                                     <<res.successful, res.failed>>, raised))
                    ELSE log_calls
             /\ IF completing /\ raised /\ OnLogError = "raise"
                THEN pc' = "raised" /\ UNCHANGED result
                ELSE pc' = "done" /\ result' = res
    /\ UNCHANGED <<fn, receivers, batch_size, env, token_response, db_logging,
                   idx, email_index, send_log_id, successful_emails,
                   failed_emails, calls>>
    /\ MailOnly

\* ------------------------------------------------------------------------
\* Specification of the two bulk senders
\* ------------------------------------------------------------------------
InitMail ==
    /\ fn \in {"bulk", "batch"}
    /\ receivers \in SeqsUpTo(Emails, MaxRecv)
    /\ batch_size \in (IF fn = "bulk" THEN {1} ELSE 1..MaxBatchSize)
    /\ env \in SUBSET GraphEnvVars
    /\ token_response \in TokenResponses
    /\ db_logging \in BOOLEAN
    /\ pc = "call"
    /\ idx = IF fn = "bulk" THEN 1 ELSE 0
    /\ email_index = 0
    /\ send_log_id = None
    /\ successful_emails = <<>>
    /\ failed_emails = <<>>
    /\ calls = <<>>
    /\ log_calls = <<>>
    /\ result = None
    /\ IdleHtml /\ IdlePub /\ IdlePost /\ IdleMetrics /\ IdleShares /\ IdleUi
    /\ IdleService /\ IdleFollowers /\ IdleAuth /\ IdleSingle /\ IdleCollect
    /\ IdleSegment /\ IdleGrowth /\ IdleEditor

NextMail ==
    \/ BulkEnter
    \/ BulkSend
    \/ BatchEnter
    \/ BatchSend
    \/ Finish

SpecMail == InitMail /\ [][NextMail]_vars

\* ------------------------------------------------------------------------
\* Properties of the two bulk senders
\* ------------------------------------------------------------------------
\* The call got past the empty-receivers, configuration and token checks.
Started ==
    /\ Len(receivers) > 0
    /\ get_graph_config(env) # None
    /\ get_access_token(env, token_response) # None

PostCalls == SelectSeq(calls, LAMBDA c : c.op = "post")

BatchCalls == SelectSeq(calls, LAMBDA c : c.op = "batch")

AddCalls == SelectSeq(log_calls, LAMBDA c : c.op = "add_email_send_result")

Addresses(failed) == [i \in 1..Len(failed) |-> failed[i].email]

RECURSIVE Flatten(_)
Flatten(ss) == IF ss = <<>> THEN <<>> ELSE Head(ss) \o Flatten(Tail(ss))

\* The positions (1-based) whose POST was answered 202.
AcceptedPositions ==
    {i \in 1..Len(receivers) :
        \E k \in 1..Len(PostCalls) :
            PostCalls[k].at = <<i>> /\ PostCalls[k].res = "202"}

\* Every address is in the two lists together as often as in receivers.
AccountedOnce(res) ==
    /\ res.total = Len(receivers)
    /\ res.successful + res.failed = res.total
    /\ \A e \in Emails :
         Count(res.successful_emails, e) + Count(Addresses(res.failed_emails), e)
            = Count(receivers, e)

\* C1: send_mail_graph_batch accounts for every recipient exactly once,
\* whatever Graph answers: each address is in successful_emails and
\* failed_emails together as often as in receivers, and
\* successful + failed = total = len(receivers).
C1_BatchAccountsEveryRecipient ==
    (fn = "batch" /\ pc = "done") => AccountedOnce(result)

\* C2: send_mail_graph_bulk past the configuration and token checks: the
\* recipients whose POST returned 202 are exactly successful_emails, all the
\* others (another status, a connection error) are failed_emails, in list
\* order, and successful + failed = total = len(receivers).
C2_BulkPartition ==
    (fn = "bulk" /\ pc = "done" /\ Started) =>
        /\ result.successful_emails = AtPositions(receivers, AcceptedPositions)
        /\ Addresses(result.failed_emails) =
               AtPositions(receivers, (1..Len(receivers)) \ AcceptedPositions)
        /\ result.successful = Len(result.successful_emails)
        /\ result.failed = Len(result.failed_emails)
        /\ result.successful + result.failed = result.total
        /\ result.total = Len(receivers)

\* A bulk run that ended with all three HTTP outcomes seen.
C2_Witness ==
    /\ fn = "bulk" /\ pc = "done" /\ Started
    /\ \A o \in HttpOutcomes : \E k \in 1..Len(PostCalls) : PostCalls[k].res = o

C4_WitnessBulk ==
    /\ fn = "bulk" /\ pc = "done" /\ Started
    /\ Len(PostCalls) = 3
    /\ PostCalls[1].res = "conn" /\ PostCalls[2].res = "other"

\* C5: batch mode with a send log and no failing logging call: when
\* complete_email_send_log is called, exactly one add_email_send_result has
\* been recorded for every recipient, with success=True iff the recipient is
\* in successful_emails.
C5_BatchLogsEveryRecipient ==
    (/\ fn = "batch" /\ pc = "done" /\ Started
     /\ send_log_id # None
     /\ \A k \in 1..Len(log_calls) : ~log_calls[k].raised)
    =>
    /\ log_calls[Len(log_calls)].op = "complete_email_send_log"
    /\ \A e \in Emails :
         /\ Count([k \in 1..Len(AddCalls) |-> AddCalls[k].email], e)
                = Count(receivers, e)
         /\ Cardinality({k \in 1..Len(AddCalls) :
                            AddCalls[k].email = e /\ AddCalls[k].success})
                = Count(result.successful_emails, e)

\* The two lists as the HTTP answers alone determine them, no logging call
\* considered: bulk.
ReplayBulk ==
    [succ |-> AtPositions(receivers, AcceptedPositions),
     failed |-> AtPositions(receivers,
                            (1..Len(receivers)) \ AcceptedPositions)]

\* The same for the batch sender: a batch answered 200 sorts the address of
\* each sub-response by its status, any other answer fails the whole batch.
RECURSIVE ReplayBody(_, _, _)
ReplayBody(body, j, acc) ==
    IF j > Len(body) THEN acc
    ELSE LET e == receivers[body[j][1] + 1]
         IN  ReplayBody(body, j + 1,
                 IF body[j][2] = "202"
                 THEN [acc EXCEPT !.succ = Append(@, e)]
                 ELSE [acc EXCEPT !.failed = Append(@, e)])

RECURSIVE ReplayBatches(_, _)
ReplayBatches(k, acc) ==
    IF k > Len(BatchCalls) THEN acc
    ELSE LET c == BatchCalls[k]
         IN  ReplayBatches(k + 1,
                 IF c.res = "200" THEN ReplayBody(c.body, 1, acc)
                 ELSE [acc EXCEPT !.failed =
                          @ \o [i \in 1..Len(c.at) |-> receivers[c.at[i] + 1]]])

Replay ==
    IF fn = "bulk" THEN ReplayBulk
    ELSE ReplayBatches(1, [succ |-> <<>>, failed |-> <<>>])

LoggingRaised == \E k \in 1..Len(log_calls) : log_calls[k].raised

\* C6: best-effort logging: a logging call that raises never aborts the run
\* and never changes what is sent or returned: the run ends, every recipient
\* was submitted, and the result is the one the HTTP answers alone determine.
C6_LoggingFailureChangesNothing ==
    /\ pc # "raised"
    /\ (LoggingRaised /\ pc = "loop" /\ ~LoopOver) =>
           ENABLED (BulkSend \/ BatchSend)
    /\ (LoggingRaised /\ pc = "loop" /\ LoopOver) => ENABLED Finish
    /\ (LoggingRaised /\ pc = "done") =>
           /\ result.successful_emails = Replay.succ
           /\ Addresses(result.failed_emails) = Replay.failed
           /\ result.successful = Len(Replay.succ)
           /\ result.failed = Len(Replay.failed)
           /\ result.total = Len(receivers)
           /\ IF fn = "bulk" THEN Len(PostCalls) = Len(receivers)
              ELSE Len(BatchCalls) = batches_needed(Len(receivers), batch_size)

\* A run that ended although add_email_send_result and
\* complete_email_send_log both raised, with a recipient sent to after the
\* first failure.
C6_Witness ==
    /\ pc = "done" /\ Started
    /\ \E k \in 1..Len(log_calls) :
         /\ log_calls[k].op = "add_email_send_result" /\ log_calls[k].raised
         /\ k + 1 < Len(log_calls)
    /\ log_calls[Len(log_calls)].op = "complete_email_send_log"
    /\ log_calls[Len(log_calls)].raised
    /\ result.successful >= 1

\* The HTTP sends and the calls of time.sleep of the run, in order.
SendsAndPauses ==
    SelectSeq(calls, LAMBDA c : c.op \in {"post", "batch", "sleep"})

Pauses == SelectSeq(calls, LAMBDA c : c.op = "sleep")

\* C17: sleep-based rate limiting: sends and pauses alternate, starting with
\* a send, so no two HTTP sends happen without a pause between them; the
\* bulk sender pauses for delay_between_emails and the batch sender for
\* 0.5 s; a run that returned did not pause after its last send, and a run
\* past the checks paused total - 1 times (bulk) or once less than the
\* number of batches (batch).
C17_PauseBetweenSends ==
    LET s == SendsAndPauses
    IN  /\ \A k \in 1..Len(s) :
             IF k % 2 = 0
             THEN /\ s[k].op = "sleep"
                  /\ s[k].res = IF fn = "bulk" THEN "delay_between_emails"
                                ELSE "0.5"
             ELSE s[k].op = IF fn = "bulk" THEN "post" ELSE "batch"
        /\ pc = "done" => (s = <<>> \/ s[Len(s)].op # "sleep")
        /\ (pc = "done" /\ Started) =>
             Len(Pauses) = (IF fn = "bulk" THEN Len(receivers)
                            ELSE batches_needed(Len(receivers), batch_size)) - 1

\* A bulk run over three recipients that returned after two pauses, the
\* first of them after a failed POST.
C17_Witness ==
    /\ fn = "bulk" /\ pc = "done" /\ Started
    /\ Len(receivers) = 3 /\ Len(Pauses) = 2
    /\ PostCalls[1].res = "conn"

\* A batch run of two batches that returned after one pause.
C17_WitnessBatch ==
    /\ fn = "batch" /\ pc = "done" /\ Started
    /\ Len(BatchCalls) = 2 /\ Len(Pauses) = 1
    /\ Pauses[1].res = "0.5"

ProgressOfRun == SelectSeq(calls, LAMBDA c : c.op = "progress")

\* ceil(a / b) for b >= 1.
Ceil(a, b) == IF a % b = 0 THEN a \div b ELSE a \div b + 1

C20_PreconditionFailures ==
    ~Started =>
        /\ PostCalls = <<>> /\ BatchCalls = <<>> /\ calls = <<>>
        /\ log_calls = <<>> /\ send_log_id = None
        /\ pc \in {"call", "done"}
        /\ pc = "done" =>
             /\ result.total = Len(receivers)
             /\ result.successful = 0
             /\ result.successful_emails = <<>>
             /\ result.failed = Len(receivers)
             /\ Addresses(result.failed_emails) = receivers
             /\ receivers = <<>> =>
                    result = [total |-> 0, successful |-> 0, failed |-> 0,
                              successful_emails |-> <<>>,
                              failed_emails |-> <<>>]

\* A batch call for three recipients, two of them different, that returned
\* without a token, the configuration being complete and logging available.
C20_Witness ==
    /\ fn = "batch" /\ pc = "done" /\ db_logging
    /\ Len(receivers) = 3 /\ receivers[1] # receivers[2]
    /\ get_graph_config(env) # None
    /\ get_access_token(env, token_response) = None
    /\ result.failed = 3

\* A bulk call with empty receivers that returned.
C20_WitnessEmpty ==
    /\ fn = "bulk" /\ pc = "done" /\ receivers = <<>>
    /\ result.total = 0

\* A bulk call for two recipients that returned for want of configuration.
C20_WitnessNoConfig ==
    /\ fn = "bulk" /\ pc = "done" /\ Len(receivers) = 2
    /\ get_graph_config(env) = None
    /\ result.failed = 2

CompleteCalls ==
    SelectSeq(log_calls, LAMBDA c : c.op = "complete_email_send_log")

\* The sender was left, by a return or by an exception.
Left == pc \in {"done", "raised", "response_error"}

\* complete_email_send_log is called at most once, only for a log id that
\* create_email_send_log returned, and no logging call follows it; when the
\* sender returns with a log id the call was made, with the counts of the
\* returned result.
CompletedAsReturned ==
    /\ Len(CompleteCalls) <= 1
    /\ CompleteCalls # <<>> => send_log_id # None
    /\ \A k \in 1..Len(log_calls) :
         log_calls[k].op = "complete_email_send_log" => k = Len(log_calls)
    /\ (pc = "done" /\ send_log_id # None) =>
         /\ Len(CompleteCalls) = 1
         /\ CompleteCalls[1].counts = <<result.successful, result.failed>>

\* C19: send-log lifecycle: whenever create_email_send_log returned a log
\* id, complete_email_send_log is called for it exactly once, after the
\* last add_email_send_result, with the counts of the returned result,
\* whatever the HTTP outcomes and the batch responses were: a sender that
\* was left with a log id has returned and has made that call.
C19_SendLogCompleted ==
    /\ CompletedAsReturned
    /\ (Left /\ send_log_id # None) =>
         /\ pc = "done"
         /\ Len(CompleteCalls) = 1

\* A batch run with a send log that returned after one batch had failed as a
\* whole and another had been answered with fewer sub-responses than
\* requests; complete_email_send_log got the counts of the result.
SendLogCompletedReached ==
    /\ fn = "batch" /\ pc = "done" /\ send_log_id # None
    /\ Len(BatchCalls) = 2
    /\ BatchCalls[1].res = "conn"
    /\ BatchCalls[2].res = "200"
    /\ Len(BatchCalls[2].body) < Len(BatchCalls[2].at)
    /\ CompleteCalls[1].counts = <<result.successful, result.failed>>
    /\ result.failed >= 1

\* ------------------------------------------------------------------------
\* graph_mail.py: footer and inline images in the HTML body
\* ------------------------------------------------------------------------
\* HTML is a sequence of fragments. The fragments that matter to the helpers
\* are kept apart: the footer marker as the HTML comment the footer carries,
\* the marker text written any other way (for instance without the spaces of
\* the comment), the closing body tag in either case, and the preference
\* comment.
FOOTER_MARKER_HTML == "<!-- PIES-DE-EMAIL -->"
MarkerOtherwise == "<!--PIES-DE-EMAIL-->"
BodyEndLower == "</body>"
BodyEndUpper == "</BODY>"
PrefInline == "<!-- PREF:INLINE_IMAGES -->"
Paragraph == "<p>hola</p>"
FooterTable == "<table>Tu Nombre ...</table>"
ImgTag == "<br><img src=cid alt=foto.png><br>"
ImgTagMarker == "<br><img src=cid alt=PIES-DE-EMAIL.png><br>"

EMAIL_FOOTER == <<"<br><br>", FOOTER_MARKER_HTML, FooterTable>>

\* The fragments in which the text FOOTER_MARKER_TEXT occurs (once each).
HoldsMarkerText == {FOOTER_MARKER_HTML, MarkerOtherwise, "PIES-DE-EMAIL",
                    ImgTagMarker}

HtmlFragments == {Paragraph, FOOTER_MARKER_HTML, MarkerOtherwise, BodyEndLower,
                  BodyEndUpper, PrefInline}

TextFragments == {"hola", "\n", "PIES-DE-EMAIL"}

\* html.count(FOOTER_MARKER_TEXT)
MarkerCount(h) == Cardinality({i \in 1..Len(h) : h[i] \in HoldsMarkerText})

\* Position of the first fragment of h in the set S, 0 when there is none.
FirstIn(h, S) ==
    IF \E i \in 1..Len(h) : h[i] \in S
    THEN CHOOSE i \in 1..Len(h) : h[i] \in S /\ \A k \in 1..(i - 1) : h[k] \notin S
    ELSE 0

\* h with the fragments ins put in front of position i.
InsertBefore(h, i, ins) == SubSeq(h, 1, i - 1) \o ins \o SubSeq(h, i, Len(h))

\* re.search(r"</body>", html, re.IGNORECASE)
BodyEnds == {BodyEndLower, BodyEndUpper}

RECURSIVE Without(_, _)
Without(h, x) ==
    IF h = <<>> THEN <<>>
    ELSE (IF Head(h) = x THEN <<>> ELSE <<Head(h)>>) \o Without(Tail(h), x)

\* content_html=None, told apart from the empty string "" (which is <<>>).
NoHtml == <<None>>

\* `not content_html`
Falsy(h) == h = NoHtml \/ h = <<>>

\* extract_inline_preferences: the HTML without the preference comment, and
\* whether it was there. (The image width preference only sets a style.)
extract_inline_preferences(h) ==
    IF Falsy(h) THEN [html |-> h, inline |-> FALSE]
    ELSE [html |-> Without(h, PrefInline),
          inline |-> \E i \in 1..Len(h) : h[i] = PrefInline]

\* ensure_html_string: the HTML if there is any, else the plain text with
\* its line breaks turned into <br>, in a div.
ensure_html_string(text, h) ==
    IF ~Falsy(h) THEN h
    ELSE <<"<div>">>
         \o [i \in 1..Len(text) |-> IF text[i] = "\n" THEN "<br>" ELSE text[i]]
         \o <<"</div>">>

\* build_attachments_payload: one img tag per existing image file when
\* inline_images is set; the file name goes into the tag's alt text.
AttachmentFiles == {"foto.png", "PIES-DE-EMAIL.png", "doc.pdf", "missing.png"}

RECURSIVE build_img_tags(_, _)
build_img_tags(files, inline) ==
    IF files = <<>> THEN <<>>
    ELSE (IF inline /\ Head(files) = "foto.png" THEN <<ImgTag>>
          ELSE IF inline /\ Head(files) = "PIES-DE-EMAIL.png" THEN <<ImgTagMarker>>
          ELSE <<>>)
         \o build_img_tags(Tail(files), inline)

\* insert_inline_images_before_footer
insert_inline_images_before_footer(h, tags) ==
    IF tags = <<>> THEN h
    ELSE IF FirstIn(h, {FOOTER_MARKER_HTML}) # 0
         THEN InsertBefore(h, FirstIn(h, {FOOTER_MARKER_HTML}), tags)
    ELSE IF FirstIn(h, BodyEnds) # 0
         THEN InsertBefore(h, FirstIn(h, BodyEnds), tags)
    ELSE h \o tags

\* ensure_footer_once
ensure_footer_always(h) ==
    IF FirstIn(h, BodyEnds) # 0
    THEN InsertBefore(h, FirstIn(h, BodyEnds), EMAIL_FOOTER)
    ELSE h \o EMAIL_FOOTER
ensure_footer_once(h) ==
    IF MarkerCount(h) > 0 THEN h
    ELSE IF FirstIn(h, BodyEnds) # 0
         THEN InsertBefore(h, FirstIn(h, BodyEnds), EMAIL_FOOTER)
    ELSE h \o EMAIL_FOOTER

\* The senders' steps, in their order (send_mail_graph, _bulk and _batch
\* build the body the same way).
ExtractPreferences ==
    /\ hpc = "preferences"
    /\ LET pref == extract_inline_preferences(content_html)
       IN  /\ content_html' = pref.html
           /\ inline_images' = (inline_images \/ pref.inline)
    /\ hpc' = "base"
    /\ UNCHANGED <<content_text, attachments, html, html0, img_tags>>
    /\ HtmlOnly

EnsureHtmlString ==
    /\ hpc = "base"
    /\ html' = ensure_html_string(content_text, content_html)
    /\ html0' = html'
    /\ hpc' = "attachments"
    /\ UNCHANGED <<content_text, content_html, attachments, inline_images, img_tags>>
    /\ HtmlOnly

BuildAttachments ==
    /\ hpc = "attachments"
    /\ img_tags' = build_img_tags(attachments, inline_images)
    /\ hpc' = "images"
    /\ UNCHANGED <<content_text, content_html, attachments, inline_images, html, html0>>
    /\ HtmlOnly

InsertInlineImages ==
    /\ hpc = "images"
    /\ html' = insert_inline_images_before_footer(html, img_tags)
    /\ hpc' = "footer"
    /\ UNCHANGED <<content_text, content_html, attachments, inline_images, html0, img_tags>>
    /\ HtmlOnly

EnsureFooterOnce ==
    /\ hpc = "footer"
    /\ html' = ensure_footer_once(html)
    /\ hpc' = "done"
    /\ UNCHANGED <<content_text, content_html, attachments, inline_images, html0, img_tags>>
    /\ HtmlOnly

AttachmentInputs ==
    {<<>>, <<"foto.png">>, <<"doc.pdf">>, <<"PIES-DE-EMAIL.png">>,
     <<"foto.png", "foto.png">>, <<"missing.png", "foto.png">>,
     <<"doc.pdf", "foto.png">>}

InitHtml ==
    /\ content_html \in {NoHtml} \cup SeqsUpTo(HtmlFragments, MaxHtmlLen)
    /\ content_text \in (IF Falsy(content_html)
                         THEN SeqsUpTo(TextFragments, MaxTextLen)
                         ELSE {<<"hola">>})
    /\ attachments \in AttachmentInputs
    /\ inline_images \in BOOLEAN
    /\ html = <<>> /\ html0 = <<>> /\ img_tags = <<>>
    /\ hpc = "preferences"
    /\ IdleMail /\ IdlePub /\ IdlePost /\ IdleMetrics /\ IdleShares /\ IdleUi
    /\ IdleService /\ IdleFollowers /\ IdleAuth /\ IdleSingle /\ IdleCollect
    /\ IdleSegment /\ IdleGrowth /\ IdleEditor

NextHtml ==
    \/ ExtractPreferences
    \/ EnsureHtmlString
    \/ BuildAttachments
    \/ InsertInlineImages
    \/ EnsureFooterOnce

SpecHtml == InitHtml /\ [][NextHtml]_vars

\* Positions of the inline image tags, and of the footer (its marker, however
\* written, and the footer table).
ImagePositions(h) == {i \in 1..Len(h) : h[i] \in {ImgTag, ImgTagMarker}}

FooterPositions(h) ==
    {i \in 1..Len(h) : h[i] \in {FOOTER_MARKER_HTML, MarkerOtherwise, FooterTable}}

\* Occurrences of the marker in what the footer step is given: the base HTML
\* and the image tags put into it.
MarkersBeforeFooterStep == MarkerCount(html0) + MarkerCount(img_tags)

C7_WitnessCarried ==
    /\ hpc = "done"
    /\ MarkerCount(html0) = 1
    /\ Count(html, FooterTable) = 0

\* C8: in the final body every inline image tag comes before the footer,
\* whether the input HTML carried the footer marker or not.
C8_ImagesBeforeFooter ==
    hpc = "done" =>
        \A i \in ImagePositions(html) : \A f \in FooterPositions(html) : i < f

\* ------------------------------------------------------------------------
\* graph_mail.py: send_mail_graph (one message to all receivers)
\* ------------------------------------------------------------------------
\* True only when the configuration is complete, there are receivers, a
\* token was obtained and the sendMail POST returned 202; False otherwise.
send_mail_graph(e, n_receivers, tokenResp, outcome) ==
    /\ get_graph_config(e) # None
    /\ n_receivers > 0
    /\ get_access_token(e, tokenResp) # None
    /\ Accepted(outcome)

\* `if not receivers:`
ReceiversGivenUnchecked(rcv) == TRUE
ReceiversGiven(rcv) == Len(rcv) > 0

\* The checks before anything is sent: configuration, receivers, token, in
\* this order; each failing check returns False.
SingleEnter ==
    /\ gpc = "call"
    /\ IF get_graph_config(g_env) = None
       THEN /\ g_returned' = FALSE /\ gpc' = "returned"
            /\ UNCHANGED g_calls
       ELSE IF ~ReceiversGiven(g_receivers)
       THEN /\ g_returned' = FALSE /\ gpc' = "returned"
            /\ UNCHANGED g_calls
       ELSE /\ g_calls' = Append(g_calls,
                               Call("token", <<>>, g_token_response, <<>>))
            /\ IF get_access_token(g_env, g_token_response) = None
               THEN g_returned' = FALSE /\ gpc' = "returned"
               ELSE gpc' = "post" /\ UNCHANGED g_returned
    /\ UNCHANGED <<g_env, g_receivers, g_token_response>>
    /\ SingleOnly

\* The one sendMail POST, to all receivers at once: True for 202, False for
\* any other status and for a RequestException.
SinglePost ==
    /\ gpc = "post"
    /\ \E outcome \in HttpOutcomes :
         /\ g_calls' = Append(g_calls,
                            Call("post", [i \in 1..Len(g_receivers) |-> i],
                                 outcome, <<>>))
         /\ g_returned' = Accepted(outcome)
    /\ gpc' = "returned"
    /\ UNCHANGED <<g_env, g_receivers, g_token_response>>
    /\ SingleOnly

InitSingle ==
    /\ g_env \in SUBSET GraphEnvVars
    /\ g_receivers \in SeqsUpTo(Emails, MaxRecv)
    /\ g_token_response \in TokenResponses
    /\ gpc = "call"
    /\ g_calls = <<>>
    /\ g_returned = None
    /\ IdleMail /\ IdleHtml /\ IdlePub /\ IdlePost /\ IdleMetrics /\ IdleShares
    /\ IdleUi /\ IdleService /\ IdleFollowers /\ IdleAuth /\ IdleCollect
    /\ IdleSegment /\ IdleGrowth /\ IdleEditor

NextSingle ==
    \/ SingleEnter
    \/ SinglePost

SpecSingle == InitSingle /\ [][NextSingle]_vars

SinglePosts == SelectSeq(g_calls, LAMBDA c : c.op = "post")

\* The three preconditions of send_mail_graph.
SinglePreconditions ==
    /\ GraphEnvVars \subseteq g_env
    /\ g_receivers # <<>>
    /\ g_token_response = "access_token"

\* C18: send_mail_graph never raises; it returns True exactly when the
\* configuration is complete, receivers is non-empty, a token was obtained
\* and the single sendMail POST was answered 202, and False otherwise; when
\* a precondition fails no HTTP send is made, and there is never more than
\* one.
C18_TrueIffSent ==
    /\ gpc # "raised"
    /\ Len(SinglePosts) <= 1
    /\ ~SinglePreconditions => SinglePosts = <<>>
    /\ gpc = "returned" =>
         /\ g_returned \in BOOLEAN
         /\ g_returned <=>
                /\ SinglePreconditions
                /\ Len(SinglePosts) = 1
                /\ SinglePosts[1].res = "202"
         /\ SinglePreconditions => Len(SinglePosts) = 1

\* A call that returned False without any HTTP send because receivers was
\* empty, the configuration being complete.
C18_Witness ==
    /\ gpc = "returned" /\ g_returned = FALSE
    /\ GraphEnvVars \subseteq g_env /\ g_receivers = <<>>
    /\ g_calls = <<>>

\* A call with two receivers that returned True after the POST was answered
\* 202.
C18_WitnessTrue ==
    /\ gpc = "returned" /\ g_returned = TRUE
    /\ Len(g_receivers) = 2

\* A call that returned False after the POST met a connection error.
C18_WitnessConnectionError ==
    /\ gpc = "returned" /\ g_returned = FALSE
    /\ Len(SinglePosts) = 1 /\ SinglePosts[1].res = "conn"

\* ------------------------------------------------------------------------
\* ui_components.py: display_posts, the "Publicar ahora" button
\* ------------------------------------------------------------------------
Platforms == {"Instagram", "Gmail", "WordPress", "LinkedIn", "Telegram"}

Listings == {"get_programmed_posts", "get_unprogrammed_posts", "get_sent_posts"}

\* What the platform call of one click can do. call: "ok" (returned, for
\* WordPress a post), "false" (returned a falsy value: send_mail's False,
\* create_post_wordpress's None) or "raise"; successful: result['successful']
\* of send_mail_graph_batch.
Dispatches(p) ==
    LET pf == platform[p]
    IN  IF pf = "Instagram"
        THEN [call : {"ok", "raise"}, successful : {0}]
        ELSE IF pf = "Gmail" /\ contacts[p] > 1
        THEN [call : {"ok", "raise"}, successful : 0..contacts[p]]
        ELSE IF pf = "Gmail"
        THEN [call : {IF send_mail_graph(e, contacts[p], t, o)
                      THEN "ok" ELSE "false" :
                          e \in {GraphEnvVars, {}}, t \in TokenResponses,
                          o \in HttpOutcomes} \cup {"raise"},
              successful : {0}]
        ELSE IF pf = "WordPress"
        THEN [call : {"ok", "false", "raise"}, successful : {0}]
        ELSE IF pf = "LinkedIn"
        THEN [call : {"ok", "raise"}, successful : {0}]
        ELSE [call : {"none"}, successful : {0}]

\* Whether the platform took the post: the call did not raise and reported
\* success (Gmail: Graph accepted the message for at least one recipient).
Accepts(pf, n_contacts, has_media, d) ==
    IF pf = "Instagram" THEN has_media /\ d.call = "ok"
    ELSE IF pf = "Gmail" /\ n_contacts > 1
    THEN d.call = "ok" /\ d.successful > 0
    ELSE IF pf \in {"Gmail", "WordPress", "LinkedIn"} THEN d.call = "ok"
    ELSE FALSE

\* envio_exitoso as the branches of the handler set it.
envio_exitoso(pf, n_contacts, has_media, d) ==
    IF pf = "Instagram" THEN has_media /\ d.call = "ok"
    ELSE IF pf = "Gmail" /\ n_contacts > 1
    THEN d.call # "raise" /\ d.successful > 0
    ELSE IF pf = "Gmail" THEN d.call # "raise"
    ELSE IF pf = "WordPress" THEN d.call = "ok"
    ELSE IF pf = "LinkedIn" THEN d.call = "ok"
    ELSE FALSE

\* One click on "Publicar ahora" of post p: dispatch, and if envio_exitoso,
\* update_post(sent_at=now), clear the three listings and rerun.
PublishNow(p) ==
    /\ now < MaxClock
    /\ \E d \in Dispatches(p) :
         LET exito == envio_exitoso(platform[p], contacts[p], media[p], d)
             took == Accepts(platform[p], contacts[p], media[p], d)
         IN  /\ sent_at' = IF exito THEN [sent_at EXCEPT ![p] = now] ELSE sent_at
             /\ cache' = IF exito THEN cache \ Listings ELSE cache
             /\ delivered' = [delivered EXCEPT ![p] = @ \/ took]
             /\ publish_log' = Append(publish_log,
                    [post |-> p, call |-> d.call, successful |-> d.successful,
                     envio_exitoso |-> exito])
    /\ now' = now + 1
    /\ UNCHANGED <<platform, contacts, media>>
    /\ PubOnly

InitPub ==
    /\ platform \in [PostIds -> Platforms]
    /\ contacts \in [PostIds -> 0..MaxContacts]
    /\ media \in [PostIds -> BOOLEAN]
    /\ sent_at = [p \in PostIds |-> NoTime]
    /\ delivered = [p \in PostIds |-> FALSE]
    /\ cache = Listings
    /\ now = 1
    /\ publish_log = <<>>
    /\ IdleMail /\ IdleHtml /\ IdlePost /\ IdleMetrics /\ IdleShares /\ IdleUi
    /\ IdleService /\ IdleFollowers /\ IdleAuth /\ IdleSingle /\ IdleCollect
    /\ IdleSegment /\ IdleGrowth /\ IdleEditor

NextPub == \E p \in PostIds : PublishNow(p)

SpecPub == InitPub /\ [][NextPub]_vars

\* C3: "Publicar ahora" sets a post's sent_at only if the dispatch to its
\* platform actually succeeded: a post marked sent was accepted by its
\* platform.
C3_SentOnlyIfDelivered ==
    \A p \in PostIds : sent_at[p] # NoTime => delivered[p]

\* ------------------------------------------------------------------------
\* linkedin.py: LinkedInClient.post
\* ------------------------------------------------------------------------
ImageFiles == {"a.png", "b.jpg"}

VideoFile == "clip.mp4"

\* `if video_path:` / `elif image_paths:`
TruthyPath(v) == v # None /\ v # ""

TruthyList(l) == l # NoList /\ l # <<>>

\* The branch post takes: the video alone, else the images, else no media.
MediaBranchImagesFirst(video, images) ==
    IF TruthyList(images) THEN [category |-> "IMAGE", files |-> images]
    ELSE IF TruthyPath(video) THEN [category |-> "VIDEO", files |-> <<video>>]
    ELSE [category |-> "NONE", files |-> <<>>]
MediaBranch(video, images) ==
    IF TruthyPath(video) THEN [category |-> "VIDEO", files |-> <<video>>]
    ELSE IF TruthyList(images) THEN [category |-> "IMAGE", files |-> images]
    ELSE [category |-> "NONE", files |-> <<>>]

\* One HTTP request of post: registerUpload (arg: the recipe, IMAGE or
\* VIDEO), the PUT of a file (arg: the path; asset: the asset whose upload
\* URL is used) or ugcPosts; ok tells whether it succeeded.
Request(op, arg, asset, ok) == [op |-> op, arg |-> arg, asset |-> asset, ok |-> ok]

\* The payload: "media" is a key only when there are media.
BuildPayload(category, urns) ==
    [shareMediaCategory |-> category,
     keys |-> {"shareCommentary", "shareMediaCategory"}
              \cup (IF urns # <<>> THEN {"media"} ELSE {}),
     media |-> [i \in 1..Len(urns) |-> [status |-> "READY", media |-> urns[i]]]]

PostStart ==
    /\ lpc = "start"
    /\ LET branch == MediaBranch(video_path, image_paths)
       IN  /\ media_category' = branch.category
           /\ pending' = branch.files
           /\ lpc' = IF branch.files = <<>> THEN "payload" ELSE "register"
    /\ UNCHANGED <<video_path, image_paths, asset_urn, asset_urns, payload, requests>>
    /\ PostOnly

\* _register_asset: LinkedIn names a new asset, or the request fails and the
\* HTTPError is raised again.
RegisterAsset ==
    /\ lpc = "register"
    /\ \E ok \in BOOLEAN :
         /\ requests' = Append(requests,
                Request("registerUpload", media_category, asset_urn + 1, ok))
         /\ asset_urn' = IF ok THEN asset_urn + 1 ELSE asset_urn
         /\ lpc' = IF ok THEN "upload" ELSE "raised"
    /\ UNCHANGED <<video_path, image_paths, pending, asset_urns, media_category, payload>>
    /\ PostOnly

\* _upload_file: the PUT of the file to the asset's upload URL; a missing
\* file or an HTTP error is raised again.
UploadFileIgnoringErrors ==
    /\ lpc = "upload"
    /\ \E ok \in BOOLEAN :
         requests' = Append(requests, Request("upload", Head(pending), asset_urn, ok))
    /\ asset_urns' = Append(asset_urns, asset_urn)
    /\ pending' = Tail(pending)
    /\ lpc' = IF Tail(pending) = <<>> THEN "payload" ELSE "register"
    /\ UNCHANGED <<video_path, image_paths, asset_urn, media_category, payload>>
    /\ PostOnly
UploadFile ==
    /\ lpc = "upload"
    /\ \E ok \in BOOLEAN :
         /\ requests' = Append(requests,
                Request("upload", Head(pending), asset_urn, ok))
         /\ asset_urns' = IF ok THEN Append(asset_urns, asset_urn) ELSE asset_urns
         /\ pending' = IF ok THEN Tail(pending) ELSE pending
         /\ lpc' = IF ~ok THEN "raised"
                   ELSE IF Tail(pending) = <<>> THEN "payload" ELSE "register"
    /\ UNCHANGED <<video_path, image_paths, asset_urn, media_category, payload>>
    /\ PostOnly

\* The payload and the ugcPosts request.
SendPost ==
    /\ lpc = "payload"
    /\ payload' = BuildPayload(media_category, asset_urns)
    /\ \E ok \in BOOLEAN :
         /\ requests' = Append(requests, Request("ugcPosts", "", 0, ok))
         /\ lpc' = IF ok THEN "done" ELSE "raised"
    /\ UNCHANGED <<video_path, image_paths, pending, asset_urn, asset_urns, media_category>>
    /\ PostOnly

InitPost ==
    /\ video_path \in {None, "", VideoFile}
    /\ image_paths \in {NoList} \cup SeqsUpTo(ImageFiles, MaxImages)
    /\ lpc = "start"
    /\ pending = <<>> /\ asset_urn = 0 /\ asset_urns = <<>>
    /\ media_category = None /\ payload = NoPayload /\ requests = <<>>
    /\ IdleMail /\ IdleHtml /\ IdlePub /\ IdleMetrics /\ IdleShares /\ IdleUi
    /\ IdleService /\ IdleFollowers /\ IdleAuth /\ IdleSingle /\ IdleCollect
    /\ IdleSegment /\ IdleGrowth /\ IdleEditor

NextPost ==
    \/ PostStart
    \/ RegisterAsset
    \/ UploadFile
    \/ SendPost

SpecPost == InitPost /\ [][NextPost]_vars

\* The file that was uploaded for an asset, per the requests made.
UploadedFor(urn) ==
    {requests[k].arg : k \in {n \in 1..Len(requests) :
        requests[n].op = "upload" /\ requests[n].asset = urn /\ requests[n].ok}}

\* C10: media selection of LinkedInClient.post: with a video_path the post is
\* a VIDEO with exactly one media entry, the video's, and no image asset is
\* ever registered; else with image_paths it is an IMAGE post with one media
\* entry per path, in the paths' order; else the category is NONE and the
\* payload has no media key.
C10_MediaSelection ==
    /\ TruthyPath(video_path) =>
          \A k \in 1..Len(requests) :
              requests[k].op = "registerUpload" => requests[k].arg = "VIDEO"
    /\ lpc \in {"done", "raised"} /\ payload # NoPayload =>
          IF TruthyPath(video_path)
          THEN /\ payload.shareMediaCategory = "VIDEO"
               /\ "media" \in payload.keys
               /\ Len(payload.media) = 1
               /\ UploadedFor(payload.media[1].media) = {video_path}
          ELSE IF TruthyList(image_paths)
          THEN /\ payload.shareMediaCategory = "IMAGE"
               /\ "media" \in payload.keys
               /\ Len(payload.media) = Len(image_paths)
               /\ \A i \in 1..Len(image_paths) :
                      UploadedFor(payload.media[i].media) = {image_paths[i]}
          ELSE /\ payload.shareMediaCategory = "NONE"
               /\ "media" \notin payload.keys
               /\ payload.media = <<>>

\* A video post published although image paths were given too.
C10_Witness ==
    /\ lpc = "done"
    /\ video_path = VideoFile
    /\ TruthyList(image_paths) /\ Len(image_paths) >= 2
    /\ payload.shareMediaCategory = "VIDEO"

\* An image post published with two different files.
C10_WitnessImages ==
    /\ lpc = "done"
    /\ ~TruthyPath(video_path)
    /\ Len(payload.media) = 2
    /\ image_paths = <<"b.jpg", "a.png">>

\* Positions of the requests of one kind.
RequestsOf(op) == {k \in 1..Len(requests) : requests[k].op = op}

\* C11: ordering in LinkedInClient.post: every upload follows the successful
\* registration of its asset, the ugcPosts request is made only after every
\* request before it succeeded and every asset of its payload was uploaded,
\* and once a registration or an upload has failed the error is raised and
\* nothing more is requested, so no ugcPosts request follows.
C11_RegisterUploadPublish ==
    /\ \A u \in RequestsOf("upload") :
          /\ u > 1
          /\ requests[u - 1].op = "registerUpload"
          /\ requests[u - 1].ok
          /\ requests[u - 1].asset = requests[u].asset
    /\ \A g \in RequestsOf("ugcPosts") :
          /\ g = Len(requests)
          /\ \A k \in 1..(g - 1) : requests[k].ok
          /\ Cardinality(RequestsOf("upload")) = Len(MediaBranch(video_path, image_paths).files)
          /\ \A i \in 1..Len(payload.media) :
                \E u \in RequestsOf("upload") :
                    /\ u < g
                    /\ requests[u].ok
                    /\ requests[u].asset = payload.media[i].media
    /\ \A k \in 1..Len(requests) :
          ~requests[k].ok => k = Len(requests) /\ lpc = "raised"
    /\ lpc = "done" => RequestsOf("ugcPosts") # {}

\* The upload of the second image failed: the error was raised and nothing
\* was published.
C11_Witness ==
    /\ lpc = "raised"
    /\ Cardinality(RequestsOf("upload")) = 2
    /\ requests[Len(requests)].op = "upload"
    /\ ~requests[Len(requests)].ok
    /\ RequestsOf("ugcPosts") = {}

\* A post with two images published after both uploads.
C11_WitnessPublished ==
    /\ lpc = "done"
    /\ Len(payload.media) = 2
    /\ Cardinality(RequestsOf("upload")) = 2

\* ------------------------------------------------------------------------
\* linkedin.py: get_post_metrics and get_post_metrics_advanced
\* ------------------------------------------------------------------------
\* dict.get(key, default)
Get(d, key, default) == IF key \in DOMAIN d THEN d[key] ELSE default

\* d with d[key] = value
Put(d, key, value) ==
    [k \in DOMAIN d \cup {key} |-> IF k = key THEN value ELSE d[k]]

\* Percentages are held in hundredths: 3333 is 33.33. ZeroDivision stands
\* for the ZeroDivisionError a division by 0 raises.
ZeroDivision == -1

\* round(n / d * 100, 2), in hundredths: the hundredth nearest to the
\* quotient. When the quotient lies exactly between two hundredths the
\* float that n / d * 100 yields decides which of the two round() returns,
\* so both are outcomes.
Round2Percent(n, d) ==
    IF d = 0 THEN {ZeroDivision}
    ELSE LET q == (10000 * n) \div d
             r == (10000 * n) % d
         IN  IF 2 * r < d THEN {q}
             ELSE IF 2 * r > d THEN {q + 1}
             ELSE {q, q + 1}

\* `er = (... / imp * 100) if imp > 0 else 0`, then round(er, 2)
engagement_rate(engagement, impressions) ==
    IF impressions > 0 THEN Round2Percent(engagement, impressions) ELSE {0}

StatKeys == {"impressionCount", "clickCount", "likeCount", "commentCount",
             "shareCount"}

\* The columns of a row of get_post_metrics.
RowKeys == {"impresiones", "clics", "likes", "comentarios", "compartidos", "ER%"}

\* get_post_metrics: the row of one element of the statistics answer.
GetPostMetricsRow ==
    /\ mfn = "get_post_metrics"
    /\ mpc = "element"
    /\ LET imp == Get(stats, "impressionCount", 0)
           cli == Get(stats, "clickCount", 0)
           lik == Get(stats, "likeCount", 0)
           com == Get(stats, "commentCount", 0)
           sha == Get(stats, "shareCount", 0)
       IN  \E er \in engagement_rate(lik + com + sha + cli, imp) :
              row' = [k \in RowKeys |->
                         CASE k = "impresiones" -> imp
                           [] k = "clics" -> cli
                           [] k = "likes" -> lik
                           [] k = "comentarios" -> com
                           [] k = "compartidos" -> sha
                           [] k = "ER%" -> er]
    /\ mpc' = "done"
    /\ UNCHANGED <<mfn, stats, aggregation, metrics_types, post_metrics,
                   api_elements>>
    /\ MetricsOnly

\* get_post_metrics_advanced: the metric types queried for a post.
MetricsTypes(agg) ==
    <<"impression", "reaction", "comment", "reshare", "click_count">>
    \o (IF agg = "TOTAL" THEN <<"members_reached">> ELSE <<>>)

CountsOf(metric) ==
    IF metric = "impression" THEN 0..MaxImpressions ELSE 0..MaxCount

\* The elements of a 200 answer: none, one or two, each with a count and a
\* date range (the day, here the element's place in the list).
ElementLists(metric) ==
    {<<>>}
    \cup {<<[count |-> c, dateRange |-> 1]>> : c \in CountsOf(metric)}
    \cup {<<[count |-> c, dateRange |-> 1], [count |-> e, dateRange |-> 2]>> :
             c \in CountsOf(metric), e \in CountsOf(metric)}

\* What post_metrics holds after the answer for one metric type.
RECURSIVE StoreDaily(_, _, _, _)
StoreDaily(pm, metric, elements, i) ==
    IF i > Len(elements) THEN pm
    ELSE StoreDaily(Put(pm, metric \o "_data",
                        [count |-> elements[i].count,
                         date_range |-> elements[i].dateRange]),
                    metric, elements, i + 1)

StoreAnswer(pm, metric, agg, status, elements) ==
    IF status # 200 THEN Put(pm, metric, 0)
    ELSE IF elements = <<>> THEN pm
    ELSE IF agg = "DAILY" /\ metric # "members_reached"
         THEN StoreDaily(pm, metric, elements, 1)
    ELSE Put(pm, metric, elements[1].count)

FetchMetric ==
    /\ mfn = "get_post_metrics_advanced"
    /\ mpc = "fetch"
    /\ metrics_types # <<>>
    /\ LET metric == Head(metrics_types)
       IN  \E status \in {200, 500}, elements \in ElementLists(metric) :
              /\ status = 500 => elements = <<>>
              /\ post_metrics' = StoreAnswer(post_metrics, metric, aggregation,
                                             status, elements)
              /\ api_elements' = IF status = 200 /\ aggregation = "DAILY"
                                 THEN Put(api_elements, metric, elements)
                                 ELSE api_elements
    /\ metrics_types' = Tail(metrics_types)
    /\ UNCHANGED <<mfn, stats, aggregation, row, mpc>>
    /\ MetricsOnly

\* The derived metrics of the row.
DeriveMetrics ==
    /\ mfn = "get_post_metrics_advanced"
    /\ mpc = "fetch"
    /\ metrics_types = <<>>
    /\ LET impressions == Get(post_metrics, "impression", 0)
           members_reached == Get(post_metrics, "members_reached", impressions)
           reactions == Get(post_metrics, "reaction", 0)
           comments == Get(post_metrics, "comment", 0)
           reshares == Get(post_metrics, "reshare", 0)
           clicks == Get(post_metrics, "click_count", 0)
           total_engagement == reactions + comments + reshares + clicks
       IN  \E er \in engagement_rate(total_engagement, impressions),
              reach \in (IF impressions > 0
                         THEN Round2Percent(members_reached, impressions) ELSE {0}),
              viral \in (IF impressions > 0
                         THEN Round2Percent(reshares, impressions) ELSE {0}) :
              /\ post_metrics' =
                     Put(Put(Put(Put(post_metrics, "ER%", er),
                                 "reach_rate%", reach),
                             "virality%", viral),
                         "total_engagement", total_engagement)
              /\ row' = post_metrics'
    /\ mpc' = "done"
    /\ UNCHANGED <<mfn, stats, aggregation, metrics_types, api_elements>>
    /\ MetricsOnly

StatInputs ==
    UNION {[K -> 0..MaxCount] : K \in SUBSET (StatKeys \ {"impressionCount"})}

InitMetrics ==
    /\ mfn \in {"get_post_metrics", "get_post_metrics_advanced"}
    /\ IF mfn = "get_post_metrics"
       THEN /\ \E rest \in StatInputs :
                 stats \in {rest} \cup
                     {Put(rest, "impressionCount", c) : c \in 0..MaxImpressions}
            /\ aggregation = "TOTAL"
            /\ metrics_types = <<>>
            /\ mpc = "element"
       ELSE /\ stats = <<>>
            /\ aggregation \in {"TOTAL", "DAILY"}
            /\ metrics_types = MetricsTypes(aggregation)
            /\ mpc = "fetch"
    /\ post_metrics = <<>>
    /\ row = <<>>
    /\ api_elements = <<>>
    /\ IdleMail /\ IdleHtml /\ IdlePub /\ IdlePost /\ IdleShares /\ IdleUi
    /\ IdleService /\ IdleFollowers /\ IdleAuth /\ IdleSingle /\ IdleCollect
    /\ IdleSegment /\ IdleGrowth /\ IdleEditor

NextMetrics ==
    \/ GetPostMetricsRow
    \/ FetchMetric
    \/ DeriveMetrics

SpecMetrics == InitMetrics /\ [][NextMetrics]_vars

\* er is the hundredth nearest to engagement / impressions * 100.
NearestHundredth(er, engagement, impressions) ==
    LET diff == er * impressions - 10000 * engagement
    IN  2 * (IF diff < 0 THEN -diff ELSE diff) <= impressions

\* er is the engagement rate of these counts.
IsEngagementRate(er, engagement, impressions) ==
    /\ er # ZeroDivision
    /\ impressions > 0 => NearestHundredth(er, engagement, impressions)
    /\ impressions = 0 => er = 0

\* The count a row of get_post_metrics_advanced reports for a metric: the
\* column of the metric, or the count of the metric's daily data.
Reported(r, metric) ==
    IF metric \in DOMAIN r THEN r[metric]
    ELSE IF (metric \o "_data") \in DOMAIN r THEN r[metric \o "_data"].count
    ELSE 0

EngagementTypes == {"impression", "reaction", "comment", "reshare", "click_count"}

\* The daily data of a row are all of the same day.
SameDay(r) ==
    \A m, n \in EngagementTypes :
        (m \o "_data") \in DOMAIN r /\ (n \o "_data") \in DOMAIN r
            => r[m \o "_data"].date_range = r[n \o "_data"].date_range

\* C9: in every row of get_post_metrics and get_post_metrics_advanced, ER% is
\* (likes/reactions + comments + shares/reshares + clicks) / impressions * 100
\* rounded to 2 decimals when the impressions are > 0, and 0 when they are 0,
\* the counts being those the statistics report for the row; no division by
\* zero occurs.
C9_EngagementRate ==
    mpc = "done" =>
        /\ mfn = "get_post_metrics" =>
               IsEngagementRate(row["ER%"],
                                Get(stats, "likeCount", 0)
                                + Get(stats, "commentCount", 0)
                                + Get(stats, "shareCount", 0)
                                + Get(stats, "clickCount", 0),
                                Get(stats, "impressionCount", 0))
        /\ mfn = "get_post_metrics_advanced" /\ SameDay(row) =>
               IsEngagementRate(row["ER%"],
                                Reported(row, "reaction")
                                + Reported(row, "comment")
                                + Reported(row, "reshare")
                                + Reported(row, "click_count"),
                                Reported(row, "impression"))

\* The arithmetic of the two rate computations alone: over the values the
\* code reads (the columns of the row, 0 for a column that is not there), ER%
\* is the rounded rate, it is 0 without impressions, and no division by zero
\* occurs.
EngagementRateArithmetic ==
    mpc = "done" =>
        /\ mfn = "get_post_metrics" =>
               IsEngagementRate(row["ER%"],
                                row["likes"] + row["comentarios"]
                                + row["compartidos"] + row["clics"],
                                row["impresiones"])
        /\ mfn = "get_post_metrics_advanced" =>
               /\ IsEngagementRate(row["ER%"],
                                   Get(row, "reaction", 0) + Get(row, "comment", 0)
                                   + Get(row, "reshare", 0)
                                   + Get(row, "click_count", 0),
                                   Get(row, "impression", 0))
               /\ row["total_engagement"] =
                      Get(row, "reaction", 0) + Get(row, "comment", 0)
                      + Get(row, "reshare", 0) + Get(row, "click_count", 0)

\* A row whose rate had to be rounded: 2 / 3 * 100.
RoundedRateReached ==
    /\ mfn = "get_post_metrics" /\ mpc = "done"
    /\ row["impresiones"] = 3
    /\ row["likes"] + row["comentarios"] + row["compartidos"] + row["clics"] = 2
    /\ row["ER%"] = 6667

\* A TOTAL row of get_post_metrics_advanced with reactions and no impressions.
ZeroImpressionsReached ==
    /\ mfn = "get_post_metrics_advanced" /\ mpc = "done"
    /\ aggregation = "TOTAL"
    /\ Get(row, "impression", 0) = 0 /\ Get(row, "reaction", 0) > 0
    /\ row["ER%"] = 0

\* The element of an answer is in the row's data of the metric.
Retained(r, metric, elem) ==
    /\ (metric \o "_data") \in DOMAIN r
    /\ r[metric \o "_data"].count = elem.count
    /\ r[metric \o "_data"].date_range = elem.dateRange

DailyRowDone ==
    /\ mfn = "get_post_metrics_advanced" /\ mpc = "done"
    /\ aggregation = "DAILY"

\* C23: get_post_metrics_advanced with aggregation DAILY: for each metric
\* type all dates returned by the API are saved: the count and date range of
\* every element of the answer is retained in the row's data of the metric.
C23_AllDatesSaved ==
    DailyRowDone =>
        \A metric \in DOMAIN api_elements :
            \A i \in 1..Len(api_elements[metric]) :
                Retained(row, metric, api_elements[metric][i])

\* What the loop of lines 717-723 leaves: the data of a metric are those of
\* the last element of its answer alone.
OnlyLastDateSaved ==
    DailyRowDone =>
        \A metric \in DOMAIN api_elements :
            LET elements == api_elements[metric]
            IN  elements # <<>> =>
                    row[metric \o "_data"] =
                        [count |-> elements[Len(elements)].count,
                         date_range |-> elements[Len(elements)].dateRange]

\* A DAILY row whose impressions were answered with two days.
TwoDatesReached ==
    /\ DailyRowDone
    /\ "impression" \in DOMAIN api_elements
    /\ Len(api_elements["impression"]) = 2

\* ------------------------------------------------------------------------
\* linkedin.py: get_follower_segmentation
\* ------------------------------------------------------------------------
\* The pivot types asked for; the last one is not in field_mapping.
PivotTypes == {"SENIORITY", "INDUSTRY", "FUNCTION", "COMPANY_SIZE",
               "GEOGRAPHIC_AREA", "AGE"}

\* field_mapping.get(pivot_type, (None, None)): the key of the count list
\* in the answer and the key of the URN in an item.
field_mapping(pivot) ==
    CASE pivot = "SENIORITY" -> <<"followerCountsBySeniority", "seniority">>
      [] pivot = "INDUSTRY" -> <<"followerCountsByIndustry", "industry">>
      [] pivot = "FUNCTION" -> <<"followerCountsByFunction", "function">>
      [] pivot = "COMPANY_SIZE" ->
             <<"followerCountsByStaffCountRange", "staffCountRange">>
      [] pivot = "GEOGRAPHIC_AREA" -> <<"followerCountsByGeo", "geo">>
      [] OTHER -> <<None, None>>

\* labels_map.get(urn, urn), for the URNs of the answers considered: two of
\* the table and one that is not in it.
Urns == {"urn:li:seniority:3", "urn:li:industry:6", "urn:li:seniority:99"}

labels_map(urn) ==
    CASE urn = "urn:li:seniority:3" -> "Junior"
      [] urn = "urn:li:industry:6" -> "Internet"
      [] OTHER -> urn

PaidCounts == {0, 1}

\* One item of a count list: the URN under the pivot's inner key and the
\* two follower counts (a count that is missing is read as 0).
Item(key, urn, organic, paid) ==
    [key |-> key, urn |-> urn, organic |-> organic, paid |-> paid]

\* The count lists of the answer's element: the one by seniority, of up to
\* MaxItems items, and the one by industry, empty or of one item; the
\* element holds no other list.
SegmentationAnswers ==
    [followerCountsBySeniority :
         SeqsUpTo([key : {"seniority"},
                   urn : {"urn:li:seniority:3", "urn:li:seniority:99"},
                   organic : 0..MaxFollowers, paid : PaidCounts], MaxItems),
     followerCountsByIndustry :
         {<<>>, <<Item("industry", "urn:li:industry:6", 1, 1)>>}]

\* el.get(target_field, [])
CountsList(el, target_field) ==
    IF target_field \in DOMAIN el THEN el[target_field] ELSE <<>>

\* The rows appended for the items of a list, in the list's order.
SegmentRows(counts_list, inner_key) ==
    [i \in 1..Len(counts_list) |->
        LET item == counts_list[i]
            urn == IF item.key = inner_key THEN item.urn ELSE None
        IN  [segmento |-> labels_map(urn),
             seguidores |-> item.organic + item.paid]]

\* The orders of the rows: every arrangement of them.
Arrangements(data) ==
    {[i \in 1..Len(data) |-> data[p[i]]] :
        p \in {q \in [1..Len(data) -> 1..Len(data)] :
                  \A i, j \in 1..Len(data) : q[i] = q[j] => i = j}}

\* pd.DataFrame(data).sort_values(by='seguidores', ascending=False): the
\* rows by falling seguidores; the order among rows of equal seguidores is
\* the sort's choice.
sort_values_unsorted(data) == Arrangements(data)
sort_values(data) ==
    {s \in Arrangements(data) :
        \A i \in 1..(Len(s) - 1) : s[i].seguidores >= s[i + 1].seguidores}

\* What the function returns: None, or a table of rows.
NoneReturned == [table |-> FALSE, rows |-> <<>>]

DataFrame(rows) == [table |-> TRUE, rows |-> rows]

\* Lines 541-545: the pivot type is looked up before anything is requested.
SegmentationEnter ==
    /\ segpc = "call"
    /\ IF field_mapping(pivot_type)[1] = None
       THEN segpc' = "done" /\ seg_result' = NoneReturned
       ELSE segpc' = "request" /\ UNCHANGED seg_result
    /\ UNCHANGED <<pivot_type, seg_response, seg_requests>>
    /\ SegmentOnly

\* Lines 547-585: the request and the table made of its answer.
SegmentationRequest ==
    /\ segpc = "request"
    /\ seg_requests' = seg_requests + 1
    /\ LET target_field == field_mapping(pivot_type)[1]
           inner_key == field_mapping(pivot_type)[2]
           data == SegmentRows(CountsList(seg_response.element, target_field),
                               inner_key)
       IN  IF seg_response.status # 200 \/ data = <<>>
           THEN seg_result' = NoneReturned
           ELSE \E sorted \in sort_values(data) :
                    seg_result' = DataFrame(sorted)
    /\ segpc' = "done"
    /\ UNCHANGED <<pivot_type, seg_response>>
    /\ SegmentOnly

InitSegment ==
    /\ pivot_type \in PivotTypes
    /\ seg_response \in [status : {200, 500}, element : SegmentationAnswers]
    /\ seg_requests = 0
    /\ seg_result = NoneReturned
    /\ segpc = "call"
    /\ IdleAuth /\ IdleCollect /\ IdleFollowers /\ IdleHtml /\ IdleMail
    /\ IdleMetrics /\ IdlePost /\ IdlePub /\ IdleService /\ IdleShares
    /\ IdleSingle /\ IdleUi /\ IdleGrowth /\ IdleEditor

NextSegment ==
    \/ SegmentationEnter
    \/ SegmentationRequest

SpecSegment == InitSegment /\ [][NextSegment]_vars

SupportedPivots == {"SENIORITY", "INDUSTRY", "FUNCTION", "COMPANY_SIZE",
                    "GEOGRAPHIC_AREA"}

\* The count list of the answer that belongs to the pivot type.
PivotItems ==
    LET el == seg_response.element
    IN  CASE pivot_type = "SENIORITY" -> el.followerCountsBySeniority
          [] pivot_type = "INDUSTRY" -> el.followerCountsByIndustry
          [] OTHER -> <<>>

\* The rows of a result; None has none.
RowsOfResult == IF seg_result.table THEN seg_result.rows ELSE <<>>

\* The label the claim gives an item.
ClaimedLabel(urn) ==
    IF urn = "urn:li:seniority:3" THEN "Junior"
    ELSE IF urn = "urn:li:industry:6" THEN "Internet"
    ELSE urn

\* C24: get_follower_segmentation: for an unsupported pivot type None is
\* returned and no HTTP request is made; for a supported one exactly one
\* request is made and, when it is answered 200, the result has one row per
\* item of the pivot's count list, with seguidores = organicFollowerCount +
\* paidFollowerCount and segmento = the label of the item's URN, or the URN
\* itself when it has none, the rows being in non-increasing order of
\* seguidores (no item, no table: None).
C24_SegmentationRows ==
    segpc = "done" =>
        IF pivot_type \notin SupportedPivots
        THEN ~seg_result.table /\ seg_requests = 0
        ELSE /\ seg_requests = 1
             /\ seg_response.status = 200 =>
                  LET rows == RowsOfResult
                      expected == [i \in 1..Len(PivotItems) |->
                                     [segmento |-> ClaimedLabel(PivotItems[i].urn),
                                      seguidores |-> PivotItems[i].organic
                                                     + PivotItems[i].paid]]
                  IN  /\ Len(rows) = Len(PivotItems)
                      /\ \A k \in 1..Len(expected) :
                           Count(rows, expected[k]) = Count(expected, expected[k])
                      /\ \A i \in 1..(Len(rows) - 1) :
                           rows[i].seguidores >= rows[i + 1].seguidores

\* A table by seniority of two rows, of which the second item of the answer
\* (a URN without label, more followers) comes first.
C24_Witness ==
    /\ segpc = "done" /\ pivot_type = "SENIORITY"
    /\ seg_response.status = 200
    /\ Len(PivotItems) = 2
    /\ seg_result.table
    /\ PivotItems[1].urn = "urn:li:seniority:3"
    /\ PivotItems[2].urn = "urn:li:seniority:99"
    /\ PivotItems[1].organic + PivotItems[1].paid
           < PivotItems[2].organic + PivotItems[2].paid
    /\ seg_result.rows[1].segmento = "urn:li:seniority:99"
    /\ seg_result.rows[2].segmento = "Junior"

\* A call with an unsupported pivot type that returned.
C24_WitnessUnsupported ==
    /\ segpc = "done" /\ pivot_type = "AGE"
    /\ ~seg_result.table /\ seg_requests = 0

\* ------------------------------------------------------------------------
\* linkedin.py: get_follower_growth
\* ------------------------------------------------------------------------
\* pd.to_datetime(start_ms, unit='ms').date(): the day of a timestamp in
\* milliseconds.
MsPerDay == 86400000

to_date(start_ms) == start_ms \div MsPerDay

\* timeRange.start of an element: missing (read as 0), or a moment of one of
\* two days.
NoStart == 0

StartTimes == {NoStart, MsPerDay, MsPerDay + 1, 2 * MsPerDay}

OrganicGains == {0, 2}

PaidGains == {0, 1}

\* The elements of an answer, in any order of their days.
GrowthElements ==
    SeqsUpTo([start : StartTimes, organic : OrganicGains, paid : PaidGains],
             MaxElements)

\* `if start_ms:`
HasStartAlways(elem) == TRUE
HasStart(elem) == elem.start # NoStart

\* The row appended for an element with a start.
GrowthRow(elem) ==
    [fecha |-> to_date(elem.start),
     ganancia_organica |-> elem.organic,
     ganancia_pagada |-> elem.paid,
     ganancia_total |-> elem.organic + elem.paid]

RECURSIVE GrowthRows(_)
GrowthRows(elements) ==
    IF elements = <<>> THEN <<>>
    ELSE (IF HasStart(Head(elements)) THEN <<GrowthRow(Head(elements))>>
          ELSE <<>>) \o GrowthRows(Tail(elements))

\* sort_values('fecha'): the rows by rising fecha; the order among rows of
\* the same fecha is the sort's choice.
sort_by_fecha(data) ==
    {s \in Arrangements(data) :
        \A i \in 1..(Len(s) - 1) : s[i].fecha <= s[i + 1].fecha}

\* df['ganancia_total'].cumsum()
RECURSIVE cumsum(_)
cumsum(values) ==
    IF values = <<>> THEN <<>>
    ELSE LET before == cumsum(SubSeq(values, 1, Len(values) - 1))
         IN  Append(before,
                    values[Len(values)]
                    + (IF before = <<>> THEN 0 ELSE before[Len(before)]))

\* Lines 871-894 and 905-907: the request; the rows of the elements that
\* have a start.
GrowthRequest ==
    /\ grpc = "call"
    /\ IF gr_response.status # 200
       THEN /\ gr_result' = NoneReturned /\ grpc' = "done"
            /\ UNCHANGED gr_data
       ELSE /\ gr_data' = GrowthRows(gr_response.elements)
            /\ grpc' = "table"
            /\ UNCHANGED gr_result
    /\ UNCHANGED gr_response
    /\ GrowthOnly

\* Lines 896-904: the sorted table with its running sum, None without rows.
GrowthTable ==
    /\ grpc = "table"
    /\ IF gr_data = <<>>
       THEN gr_result' = NoneReturned
       ELSE \E df \in sort_by_fecha(gr_data) :
               LET acumulados == cumsum([i \in 1..Len(df) |->
                                           df[i].ganancia_total])
               IN  gr_result' = DataFrame(
                       [i \in 1..Len(df) |->
                           [fecha |-> df[i].fecha,
                            ganancia_organica |-> df[i].ganancia_organica,
                            ganancia_pagada |-> df[i].ganancia_pagada,
                            ganancia_total |-> df[i].ganancia_total,
                            seguidores_acumulados |-> acumulados[i]]])
    /\ grpc' = "done"
    /\ UNCHANGED <<gr_response, gr_data>>
    /\ GrowthOnly

InitGrowth ==
    /\ gr_response \in [status : {200, 500}, elements : GrowthElements]
    /\ gr_response.status = 500 => gr_response.elements = <<>>
    /\ gr_data = <<>>
    /\ gr_result = NoneReturned
    /\ grpc = "call"
    /\ IdleAuth /\ IdleCollect /\ IdleFollowers /\ IdleHtml /\ IdleMail
    /\ IdleMetrics /\ IdlePost /\ IdlePub /\ IdleSegment /\ IdleService
    /\ IdleShares /\ IdleSingle /\ IdleUi /\ IdleEditor

NextGrowth ==
    \/ GrowthRequest
    \/ GrowthTable

SpecGrowth == InitGrowth /\ [][NextGrowth]_vars

\* The sum of the first n values of a sequence.
RECURSIVE SumTo(_, _)
SumTo(values, n) == IF n = 0 THEN 0 ELSE SumTo(values, n - 1) + values[n]

\* The days and gains of the elements that carry a start, and of the rows.
Dated(elements) ==
    SelectSeq([i \in 1..Len(elements) |->
                  <<elements[i].start \div 86400000, elements[i].organic,
                    elements[i].paid>>],
              LAMBDA t : t[1] # 0)

DaysAndGains(rows) ==
    [i \in 1..Len(rows) |->
        <<rows[i].fecha, rows[i].ganancia_organica, rows[i].ganancia_pagada>>]

\* C25: get_follower_growth: the returned table has one row for every
\* element with a start timestamp and none for the others; its rows are in
\* ascending date order, ganancia_total = ganancia_organica +
\* ganancia_pagada in every row, and seguidores_acumulados of a row is the
\* sum of ganancia_total over that row and all rows before it.
C25_RunningSumByDate ==
    (grpc = "done" /\ gr_response.status = 200) =>
        LET rows == gr_result.rows
            dated == Dated(gr_response.elements)
        IN  /\ gr_result.table <=> dated # <<>>
            /\ Len(rows) = Len(dated)
            /\ \A k \in 1..Len(dated) :
                 Count(DaysAndGains(rows), dated[k]) = Count(dated, dated[k])
            /\ \A i \in 1..(Len(rows) - 1) : rows[i].fecha <= rows[i + 1].fecha
            /\ \A i \in 1..Len(rows) :
                 /\ rows[i].ganancia_total =
                        rows[i].ganancia_organica + rows[i].ganancia_pagada
                 /\ rows[i].seguidores_acumulados =
                        SumTo([k \in 1..Len(rows) |-> rows[k].ganancia_total], i)

\* A table of two rows made of three elements: the first of the second
\* day, the second without start, the third of the first day.
C25_Witness ==
    /\ grpc = "done" /\ gr_result.table
    /\ Len(gr_response.elements) = 3
    /\ gr_response.elements[1].start = 2 * 86400000
    /\ gr_response.elements[1].organic = 2
    /\ gr_response.elements[2].start = 0
    /\ gr_response.elements[3].start = 86400000
    /\ gr_response.elements[3].paid = 1
    /\ gr_response.elements[3].organic = 0
    /\ Len(gr_result.rows) = 2
    /\ gr_result.rows[1].seguidores_acumulados = 1
    /\ gr_result.rows[2].seguidores_acumulados = 3

\* ------------------------------------------------------------------------
\* linkedin.py: get_post_metrics, the ids of the statistics request
\* ------------------------------------------------------------------------
\* valid_post_ids[:20]
ShareLimit == 20

\* A post id: "urn:li:share:<n>", "urn:li:ugcPost:<n>" or, for kind
\* "activity", an id holding neither text.
PostId(kind, n) == [kind |-> kind, n |-> n]

\* 'urn:li:share:' in pid
IsShareOrUgcPost(pid) == pid.kind \in {"share", "ugcPost"}
IsShare(pid) == pid.kind = "share"

\* The input lists: n ids, shares but for some of the first and of the last
\* MaxOtherIds positions, which hold ugcPost or other ids.
PositionSets(n) ==
    {X \in SUBSET ((1..MaxOtherIds) \cup ((n - MaxOtherIds + 1)..n)) :
        X \subseteq 1..n}

IdLists ==
    UNION {UNION {
        {[i \in 1..n |-> PostId(IF i \in X THEN kinds[i] ELSE "share", i)] :
            kinds \in [X -> {"ugcPost", "activity"}]} :
        X \in PositionSets(n)} : n \in 0..MaxIds}

\* Lines 235-254: nothing to ask for, or the ids of the request.
FilterShareIds ==
    /\ qpc = "start"
    /\ IF post_ids = <<>>
       THEN /\ qresult' = None
            /\ qpc' = "done"
            /\ UNCHANGED valid_post_ids
       ELSE LET valid == SelectSeq(post_ids, IsShare)
            IN  IF valid = <<>>
                THEN /\ qresult' = None
                     /\ qpc' = "done"
                     /\ UNCHANGED valid_post_ids
                ELSE /\ valid_post_ids' = SubSeq(valid, 1, Min(ShareLimit, Len(valid)))
                     /\ qpc' = "request"
                     /\ UNCHANGED qresult
    /\ UNCHANGED <<post_ids_form, post_ids, stat_requests>>
    /\ SharesOnly

\* Lines 258-302: the one GET; a table for a 200 answer, None for any other
\* status and for an exception.
RequestStatistics ==
    /\ qpc = "request"
    /\ stat_requests' = Append(stat_requests, valid_post_ids)
    /\ \E outcome \in {"200", "400", "raise"} :
         qresult' = IF outcome = "200" THEN "DataFrame" ELSE None
    /\ qpc' = "done"
    /\ UNCHANGED <<post_ids_form, post_ids, valid_post_ids>>
    /\ SharesOnly

InitShares ==
    /\ post_ids_form \in {"None", "str", "list"}
    /\ post_ids \in
         (IF post_ids_form = "None" THEN {<<>>}
          ELSE IF post_ids_form = "str"
          THEN {<<>>} \cup {<<PostId(k, 1)>> : k \in {"share", "ugcPost", "activity"}}
          ELSE IdLists)
    /\ valid_post_ids = <<>>
    /\ qpc = "start"
    /\ stat_requests = <<>>
    /\ qresult = None
    /\ IdleHtml /\ IdleMail /\ IdleMetrics /\ IdlePost /\ IdlePub /\ IdleUi
    /\ IdleService /\ IdleFollowers /\ IdleAuth /\ IdleSingle /\ IdleCollect
    /\ IdleSegment /\ IdleGrowth /\ IdleEditor

NextShares ==
    \/ FilterShareIds
    \/ RequestStatistics

SpecShares == InitShares /\ [][NextShares]_vars

\* Positions of the input that hold a share id, and the k-th of them.
SharePositions == {i \in 1..Len(post_ids) : post_ids[i].kind = "share"}

NthSharePosition(k) ==
    CHOOSE i \in SharePositions :
        Cardinality({j \in SharePositions : j < i}) = k - 1

\* C12: every statistics request of get_post_metrics holds only share ids,
\* namely the first 20 share ids of the input (all of them when there are
\* fewer) in input order; when the input is empty or holds no share id, None
\* is returned and no request is made.
C12_OnlyShareIdsQueried ==
    /\ Len(stat_requests) <= 1
    /\ \A r \in 1..Len(stat_requests) :
          LET shares == stat_requests[r]
          IN  /\ Len(shares) = Min(ShareLimit, Cardinality(SharePositions))
              /\ \A k \in 1..Len(shares) :
                    /\ shares[k].kind = "share"
                    /\ shares[k] = post_ids[NthSharePosition(k)]
    /\ SharePositions = {} => stat_requests = <<>>
    /\ qpc = "done" /\ SharePositions = {} => qresult = None

\* More than 20 share ids with a ugcPost id among the first: the request has
\* the first 20 share ids.
C12_Witness ==
    /\ qpc = "done"
    /\ Cardinality(SharePositions) > ShareLimit
    /\ post_ids[1].kind = "ugcPost"
    /\ Len(stat_requests) = 1
    /\ Len(stat_requests[1]) = ShareLimit
    /\ stat_requests[1][1] = post_ids[2]

\* A list of ugcPost ids alone: None and no request.
C12_WitnessNoShare ==
    /\ qpc = "done"
    /\ post_ids_form = "list"
    /\ Len(post_ids) = 2 /\ post_ids[1].kind = "ugcPost" /\ post_ids[2].kind = "ugcPost"
    /\ stat_requests = <<>> /\ qresult = None

\* ------------------------------------------------------------------------
\* ui_components.py: handlers that change a post, and the cached listings
\* ------------------------------------------------------------------------
\* A post's row: whether it (still) exists, whether fecha_hora is set,
\* whether sent_at is set, and the revision of its content.
PostRow(exists, scheduled, sent, rev) ==
    [exists |-> exists, scheduled |-> scheduled, sent |-> sent, rev |-> rev]

\* The posts of a listing of db_config: programmed posts have a fecha_hora
\* and are not sent, unprogrammed ones have neither, sent ones have a sent_at.
Members(listing, d) ==
    {p \in PostIds :
        /\ d[p].exists
        /\ IF listing = "get_sent_posts" THEN d[p].sent
           ELSE IF listing = "get_programmed_posts"
           THEN d[p].scheduled /\ ~d[p].sent
           ELSE ~d[p].scheduled /\ ~d[p].sent}

\* What a listing returns: the rows of its posts.
Content(listing, d) == [p \in Members(listing, d) |-> d[p]]

NotCached == [valid |-> FALSE, rows |-> <<>>]

\* listing.clear() for the listings of L
Clear(c, L) == [l \in Listings |-> IF l \in L THEN NotCached ELSE c[l]]

\* The row of p a page shows: p is in a listing the page has read.
ShownRows(p) ==
    {cached[l].rows[p] : l \in {k \in Listings :
        cached[k].valid /\ p \in DOMAIN cached[k].rows}}

\* A page reads a listing: st.cache_data returns the cached rows, or runs the
\* query and caches its rows.
RenderListing(l) ==
    /\ ~cached[l].valid
    /\ cached' = [cached EXCEPT ![l] = [valid |-> TRUE, rows |-> Content(l, db)]]
    /\ UNCHANGED <<db, ui_events>>
    /\ UiOnly

\* "Desprogramar" (lines 354-363), shown for a post with fecha_hora and
\* without sent_at.
UnscheduleClears == {"get_unprogrammed_posts", "get_programmed_posts"}

Unschedule(p) ==
    /\ \E r \in ShownRows(p) : r.scheduled /\ ~r.sent
    /\ \E raised \in BOOLEAN :
         IF raised
         THEN UNCHANGED <<db, cached, ui_events>>
         ELSE /\ db' = [db EXCEPT ![p].scheduled = FALSE]
              /\ cached' = Clear(cached, UnscheduleClears)
              /\ ui_events' = ui_events \cup {"unschedule"}
    /\ UiOnly

\* "Confirmar" of the delete (lines 406-416), shown for every post.
DeleteClears == {"get_unprogrammed_posts", "get_programmed_posts"}

ConfirmDelete(p) ==
    /\ ShownRows(p) # {}
    /\ \E deleted \in {db[p].exists, FALSE} :
         IF ~deleted
         THEN UNCHANGED <<db, cached, ui_events>>
         ELSE /\ db' = [db EXCEPT ![p].exists = FALSE]
              /\ cached' = Clear(cached, DeleteClears)
              /\ ui_events' = ui_events \cup
                     {IF db[p].sent THEN "delete_sent" ELSE "delete"}
    /\ UiOnly

\* "Publicar ahora" (lines 432-519), shown for every post: sent_at is set
\* and the listings are cleared when envio_exitoso.
PublishClears == Listings

PublishNowMarksSent(p) ==
    /\ ShownRows(p) # {}
    /\ \E exito \in BOOLEAN :
         IF ~exito
         THEN UNCHANGED <<db, cached, ui_events>>
         ELSE /\ db' = [db EXCEPT ![p].sent = TRUE]
              /\ cached' = Clear(cached, PublishClears)
              /\ ui_events' = ui_events \cup {"publish"}
    /\ UiOnly

\* The names display_post_editor has bound when a button of the section
\* "Programacion" is pressed (the assignments and the parameter of lines
\* 20-224).
EditorLocals ==
    {"post_id", "post", "platform", "selected_asset_ids", "contacts_key",
     "contactos_validos", "contactos_invalidos", "instrucciones",
     "fecha_inicial", "hora_inicial", "fecha_dt", "col1", "col2"}

\* Reading a name that is not bound raises a NameError.
IsBound(name) == name \in EditorLocals

\* The editor's "Actualizar y programar" / "Actualizar sin programar"
\* (lines 226-300): update_post, link_media_to_post, st.cache_data.clear().
\* An exception of either call is caught and reported. The scheduling
\* button reads fecha_hora_programada before it calls update_post; its
\* exception is caught and reported like the others.
EditorSave(p, schedule) ==
    /\ db[p].exists
    /\ db[p].rev < MaxRev
    /\ \E outcome \in {"ok", "update_raises", "link_raises"} :
         IF outcome = "update_raises"
            \/ (schedule /\ ~IsBound("fecha_hora_programada"))
         THEN UNCHANGED <<db, cached, ui_events>>
         ELSE /\ db' = [db EXCEPT ![p] = PostRow(TRUE, schedule, FALSE, @.rev + 1)]
              /\ cached' = IF outcome = "ok" THEN Clear(cached, Listings) ELSE cached
              /\ ui_events' = ui_events \cup
                     {IF outcome = "ok" THEN "save" ELSE "save_link_raised"}
    /\ UiOnly

InitUi ==
    /\ db \in [PostIds -> {PostRow(TRUE, sc, se, 0) : sc \in BOOLEAN, se \in BOOLEAN}]
    /\ cached = [l \in Listings |-> NotCached]
    /\ ui_events = {}
    /\ IdleHtml /\ IdleMail /\ IdleMetrics /\ IdlePost /\ IdlePub /\ IdleShares
    /\ IdleService /\ IdleFollowers /\ IdleAuth /\ IdleSingle /\ IdleCollect
    /\ IdleSegment /\ IdleGrowth /\ IdleEditor

NextUi ==
    \/ \E l \in Listings : RenderListing(l)
    \/ \E p \in PostIds : Unschedule(p)
    \/ \E p \in PostIds : ConfirmDelete(p)
    \/ \E p \in PostIds : PublishNowMarksSent(p)
    \/ \E p \in PostIds, schedule \in BOOLEAN : EditorSave(p, schedule)

SpecUi == InitUi /\ [][NextUi]_vars

\* A listing is stale: it holds cached rows that are not what it returns now.
Stale(l) == cached[l].valid /\ cached[l].rows # Content(l, db)

\* C13: after every handler that changes a post (unschedule, confirmed
\* delete, publish now, editor save) the cached listing of every category the
\* post was in or is in now has been cleared: no listing holds a stale copy.
C13_NoStaleListing ==
    \A l \in Listings : ~Stale(l)

\* Where staleness comes from: only the sent listing after the delete of a
\* sent post, unless an editor save failed after update_post.
StaleOnlyAfterDeleteOfSent ==
    \A l \in Listings :
        Stale(l) /\ "save_link_raised" \notin ui_events =>
            l = "get_sent_posts" /\ "delete_sent" \in ui_events

\* Every kind of handler has changed a post while listings were cached.
AllHandlersReached ==
    {"unschedule", "delete", "publish", "save"} \subseteq ui_events

\* ------------------------------------------------------------------------
\* auto_analytics.py: main and run_analytics_cycle
\* ------------------------------------------------------------------------
\* int(os.getenv("AUTO_ANALYTICS_INTERVAL", "3600"))
DefaultInterval == 3600

\* time.sleep(300) of main's `except Exception`
RetryWait == 300

\* The intervals configured: a minute, the default, and a negative number
\* (time.sleep raises ValueError for it).
Intervals == {60, DefaultInterval, -1}

Wait(after, seconds) == [after |-> after, seconds |-> seconds]

\* run_analytics_cycle(): it returns True, or it catches the exception of
\* one of its steps and returns False; main does not look at the result. A
\* KeyboardInterrupt is not an Exception and reaches main.
RunCycle ==
    /\ spc = "cycle"
    /\ cycles < MaxCycles
    /\ cycles' = cycles + 1
    /\ \E outcome \in {"completed", "failed", "KeyboardInterrupt"} :
         IF outcome = "KeyboardInterrupt"
         THEN /\ interrupted' = TRUE
              /\ spc' = "stopped"
              /\ UNCHANGED last_cycle
         ELSE /\ last_cycle' = outcome
              /\ spc' = "sleep"
              /\ UNCHANGED interrupted
    /\ UNCHANGED <<interval, waits>>
    /\ ServiceOnly

\* time.sleep(interval) after the cycle.
SleepInterval ==
    /\ spc = "sleep"
    /\ IF interval < 0
       THEN /\ spc' = "retry"
            /\ UNCHANGED <<waits, interrupted>>
       ELSE \E interrupt \in BOOLEAN :
              IF interrupt
              THEN /\ interrupted' = TRUE
                   /\ spc' = "stopped"
                   /\ UNCHANGED waits
              ELSE /\ waits' = Append(waits, Wait(last_cycle, interval))
                   /\ spc' = "cycle"
                   /\ UNCHANGED interrupted
    /\ UNCHANGED <<interval, cycles, last_cycle>>
    /\ ServiceOnly

\* `except Exception` of main: time.sleep(300).
SleepRetry ==
    /\ spc = "retry"
    /\ \E interrupt \in BOOLEAN :
         IF interrupt
         THEN /\ interrupted' = TRUE
              /\ spc' = "stopped"
              /\ UNCHANGED waits
         ELSE /\ waits' = Append(waits, Wait(last_cycle, RetryWait))
              /\ spc' = "cycle"
              /\ UNCHANGED interrupted
    /\ UNCHANGED <<interval, cycles, last_cycle>>
    /\ ServiceOnly

InitService ==
    /\ interval \in Intervals
    /\ spc = "cycle"
    /\ cycles = 0
    /\ last_cycle = None
    /\ waits = <<>>
    /\ interrupted = FALSE
    /\ IdleHtml /\ IdleMail /\ IdleMetrics /\ IdlePost /\ IdlePub
    /\ IdleShares /\ IdleUi
    /\ IdleFollowers /\ IdleAuth /\ IdleSingle /\ IdleCollect /\ IdleSegment
    /\ IdleGrowth /\ IdleEditor

NextService ==
    \/ RunCycle
    \/ SleepInterval
    \/ SleepRetry

SpecService == InitService /\ [][NextService]_vars

\* C14: with a valid interval, the wait after a cycle that completed is
\* `interval` seconds, the wait after a cycle that failed with an error is
\* 300 seconds, and the service stops only on KeyboardInterrupt.
C14_WaitsOfThePollingLoop ==
    interval >= 0 =>
        /\ \A k \in 1..Len(waits) :
              /\ waits[k].after = "completed" => waits[k].seconds = interval
              /\ waits[k].after = "failed" => waits[k].seconds = RetryWait
        /\ spc = "stopped" => interrupted

\* What the loop does: whether the cycle completed or failed, the next one
\* starts `interval` seconds later (300 seconds later when time.sleep
\* refuses the interval), and the service stops only on KeyboardInterrupt.
EveryWaitIsTheInterval ==
    /\ \A k \in 1..Len(waits) :
          waits[k].seconds = IF interval >= 0 THEN interval ELSE RetryWait
    /\ spc = "stopped" => interrupted
    /\ Len(waits) <= cycles

\* The service went on after a failed cycle.
CycleAfterFailedCycle ==
    /\ Len(waits) >= 2
    /\ waits[1].after = "failed"
    /\ waits[2].after = "completed"

\* ------------------------------------------------------------------------
\* auto_analytics.py: collect_linkedin_metrics
\* ------------------------------------------------------------------------
\* The post ids of the organisation.
FetchedIds == {"urn:li:share:1", "urn:li:share:2"}

\* The impresiones of a metrics row; the other columns are stored alike.
Impresiones == {1, 2}

\* The runs, by their number.
Cycles == {1, 2}

NoRow == 0

\* df_metrics: None (no table), or a table with at most one row per post id
\* (an empty table has none).
NoTable == [p \in FetchedIds |-> NoRow]

MetricsTables == [FetchedIds -> Impresiones \cup {NoRow}]

\* `df_metrics is None or df_metrics.empty`; None and the empty table are
\* not told apart by the code and are both held as NoTable.
NoMetrics(df) == \A p \in FetchedIds : df[p] = NoRow

\* `metrics_row = df_metrics[df_metrics['post_id'] == post_id]` is not empty
HasMetricsRowAlways(df, post_id) == TRUE
HasMetricsRow(df, post_id) == df[post_id] # NoRow

\* LinkedInMetric(post_id=..., impresiones=..., ...); cycle stands for
\* collected_at.
LinkedInMetric(post_id, impresiones, cycle) ==
    [post_id |-> post_id, impresiones |-> impresiones, cycle |-> cycle]

\* Lines 122-137: the two fetches and the early returns; a fetch that
\* raises is held as one that brought nothing, with the rollback of lines
\* 209-212.
StartCollect ==
    /\ cpc \in {"idle", "done"}
    /\ ccycle + 1 \in Cycles
    /\ ccycle' = ccycle + 1
    /\ table_before' = lm_table
    /\ metrics_saved' = 0
    /\ cpost' = 1
    /\ \E posts \in SeqsUpTo(FetchedIds, MaxPosts), df \in MetricsTables :
         /\ posts_data' = posts
         /\ df_metrics' = df
         /\ posts = <<>> => df = NoTable
         /\ \/ /\ posts = <<>> \/ NoMetrics(df)
               /\ cpc' = "done"
               /\ creturned' = 0
               /\ collect_outcome' \in {"no_data", "rolled_back"}
            \/ /\ ~(posts = <<>> \/ NoMetrics(df))
               /\ cpc' = "rows"
               /\ UNCHANGED <<creturned, collect_outcome>>
    /\ UNCHANGED <<lm_table, lm_session>>
    /\ CollectOnly

\* Lines 143-200: one post of the loop: skipped without a metrics row,
\* otherwise a new row is added to the session.
CollectRow ==
    /\ cpc = "rows"
    /\ cpost <= Len(posts_data)
    /\ LET post_id == posts_data[cpost]
       IN  IF HasMetricsRow(df_metrics, post_id)
           THEN /\ lm_session' = Append(lm_session,
                                      LinkedInMetric(post_id,
                                                     df_metrics[post_id],
                                                     ccycle))
                /\ metrics_saved' = metrics_saved + 1
           ELSE UNCHANGED <<lm_session, metrics_saved>>
    /\ cpost' = cpost + 1
    /\ cpc' = IF cpost = Len(posts_data) THEN "commit" ELSE "rows"
    /\ UNCHANGED <<lm_table, posts_data, df_metrics, ccycle, creturned,
                   collect_outcome, table_before>>
    /\ CollectOnly

\* Lines 202-207: session.commit() and the return of metrics_saved.
CollectCommit ==
    /\ cpc = "commit"
    /\ lm_table' = lm_session
    /\ creturned' = metrics_saved
    /\ collect_outcome' = "committed"
    /\ cpc' = "done"
    /\ UNCHANGED <<lm_session, posts_data, df_metrics, cpost, metrics_saved,
                   ccycle, table_before>>
    /\ CollectOnly

\* Lines 209-212: an exception of a query, of a conversion or of the
\* commit; rollback, 0.
CollectRollback ==
    /\ cpc \in {"rows", "commit"}
    /\ lm_session' = lm_table
    /\ creturned' = 0
    /\ collect_outcome' = "rolled_back"
    /\ cpc' = "done"
    /\ UNCHANGED <<lm_table, posts_data, df_metrics, cpost, metrics_saved,
                   ccycle, table_before>>
    /\ CollectOnly

InitCollect ==
    /\ lm_table = <<>> /\ lm_session = <<>> /\ posts_data = <<>>
    /\ df_metrics = NoTable /\ cpc = "idle" /\ cpost = 0 /\ metrics_saved = 0
    /\ ccycle = 0 /\ creturned = 0 /\ collect_outcome = None
    /\ table_before = <<>>
    /\ IdleAuth /\ IdleFollowers /\ IdleHtml /\ IdleMail /\ IdleMetrics
    /\ IdlePost /\ IdlePub /\ IdleService /\ IdleShares /\ IdleSingle
    /\ IdleUi /\ IdleSegment /\ IdleGrowth /\ IdleEditor

NextCollect ==
    \/ StartCollect
    \/ CollectRow
    \/ CollectCommit
    \/ CollectRollback

SpecCollect == InitCollect /\ [][NextCollect]_vars

\* The fetched posts that have a metrics row, in the order fetched.
PostsWithMetrics ==
    SelectSeq(posts_data, LAMBDA p : df_metrics[p] # NoRow)

\* C22: the history of post metrics is append-only and all-or-nothing per
\* run: the rows of earlier runs stay as they are, in place, at every
\* moment; a run that completes has added exactly one row for every fetched
\* post that has a metrics row, and returns their number; a run in which an
\* exception occurred, or that fetched nothing, leaves the table as it was
\* and returns 0.
C22_AppendOnlyAllOrNothing ==
    /\ Len(lm_table) >= Len(table_before)
    /\ SubSeq(lm_table, 1, Len(table_before)) = table_before
    /\ cpc \in {"rows", "commit"} => lm_table = table_before
    /\ (cpc = "done" /\ collect_outcome = "committed") =>
         /\ Len(lm_table) = Len(table_before) + Len(PostsWithMetrics)
         /\ \A k \in 1..Len(PostsWithMetrics) :
              lm_table[Len(table_before) + k] =
                  [post_id |-> PostsWithMetrics[k],
                   impresiones |-> df_metrics[PostsWithMetrics[k]],
                   cycle |-> ccycle]
         /\ creturned = Len(PostsWithMetrics)
    /\ (cpc = "done" /\ collect_outcome # "committed") =>
         /\ lm_table = table_before
         /\ creturned = 0

\* A second run that completed with two fetched posts of which one has a
\* metrics row, after a first run that had stored a row of the same post.
C22_Witness ==
    /\ cpc = "done" /\ collect_outcome = "committed" /\ ccycle = 2
    /\ Len(posts_data) = 2 /\ Len(PostsWithMetrics) = 1
    /\ Len(table_before) >= 1
    /\ table_before[1].post_id = PostsWithMetrics[1]
    /\ creturned = 1

\* A second run that was rolled back after a row had been added to the
\* session, the table holding the rows of the first run.
C22_WitnessRolledBack ==
    /\ cpc = "done" /\ collect_outcome = "rolled_back" /\ ccycle = 2
    /\ metrics_saved >= 1
    /\ lm_table # <<>>

\* ------------------------------------------------------------------------
\* auto_analytics.py: collect_follower_growth
\* ------------------------------------------------------------------------
\* The days reported, by their number.
Days == {1, 2}

\* ganancia_total of a day (the organic and paid gains are stored alike).
Gains == {1, 2}

NoGain == 0

FollowerRow(date, gain) == [date |-> date, gain |-> gain]

\* What get_follower_growth returns, sorted by fecha; no rows for None and
\* for an empty table.
GrowthData ==
    {d \in SeqsUpTo([date : Days, gain : Gains], MaxRows) :
        \A i \in 1..(Len(d) - 1) : d[i].date <= d[i + 1].date}

\* session.query(LinkedInFollowerMetric).filter_by(date=fecha).first(): the
\* position of the first row of that date, 0 for None. The query flushes
\* the rows added before it.
ExistingNone(rows, fecha) == 0
Existing(rows, fecha) == FirstIn([i \in 1..Len(rows) |-> rows[i].date], {fecha})

\* The gain the rows of a run report for a day, NoGain if none: the last row
\* of the day decides.
GainIn(d, day) ==
    LET at == {i \in 1..Len(d) : d[i].date = day}
    IN  IF at = {} THEN NoGain
        ELSE d[CHOOSE i \in at : \A k \in at : k <= i].gain

Override(old, d) ==
    [day \in Days |-> IF GainIn(d, day) # NoGain THEN GainIn(d, day) ELSE old[day]]

\* A run starts: lines 226-233.
Begin(data, same) ==
    /\ fruns < MaxRuns
    /\ fruns' = fruns + 1
    /\ df_growth' = data
    /\ same_data' = same
    /\ prev_outcome' = run_outcome
    /\ rows_before' = Len(fm_table)
    /\ reported' = Override(reported, data)
    /\ records_saved' = 0
    /\ frow' = 1
    /\ IF data = <<>>
       THEN /\ fpc' = "done"
            /\ freturned' = 0
            /\ run_outcome' = "no_data"
       ELSE /\ fpc' = "rows"
            /\ UNCHANGED <<freturned, run_outcome>>
    /\ UNCHANGED <<fm_table, fm_session, saved>>
    /\ FollowersOnly

StartRun ==
    /\ fpc \in {"idle", "done"}
    /\ \E data \in GrowthData : Begin(data, FALSE)

\* The next run gets the data the last one got.
RerunSameData ==
    /\ fpc = "done"
    /\ df_growth # <<>>
    /\ Begin(df_growth, TRUE)

\* Lines 235-258: update the row of the day, or add one.
UpsertRow ==
    /\ fpc = "rows"
    /\ frow <= Len(df_growth)
    /\ LET fecha == df_growth[frow].date
           gain == df_growth[frow].gain
           existing == Existing(fm_session, fecha)
       IN  IF existing # 0
           THEN /\ fm_session' = [fm_session EXCEPT ![existing].gain = gain]
                /\ UNCHANGED records_saved
           ELSE /\ fm_session' = Append(fm_session, FollowerRow(fecha, gain))
                /\ records_saved' = records_saved + 1
    /\ frow' = frow + 1
    /\ fpc' = IF frow = Len(df_growth) THEN "commit" ELSE "rows"
    /\ UNCHANGED <<fm_table, df_growth, fruns, freturned, run_outcome,
                   prev_outcome, same_data, rows_before, reported, saved>>
    /\ FollowersOnly

\* Lines 260-264: session.commit() and the return of records_saved.
Commit ==
    /\ fpc = "commit"
    /\ fm_table' = fm_session
    /\ freturned' = records_saved
    /\ run_outcome' = "committed"
    /\ saved' = Override(saved, df_growth)
    /\ fpc' = "done"
    /\ UNCHANGED <<fm_session, df_growth, frow, records_saved, fruns,
                   prev_outcome, same_data, rows_before, reported>>
    /\ FollowersOnly

\* Lines 266-269: an exception of a query or of the commit; rollback, 0.
Rollback ==
    /\ fpc \in {"rows", "commit"}
    /\ fm_session' = fm_table
    /\ freturned' = 0
    /\ run_outcome' = "rolled_back"
    /\ fpc' = "done"
    /\ UNCHANGED <<fm_table, df_growth, frow, records_saved, fruns,
                   prev_outcome, same_data, rows_before, reported, saved>>
    /\ FollowersOnly

InitFollowers ==
    /\ fm_table = <<>> /\ fm_session = <<>> /\ df_growth = <<>>
    /\ fpc = "idle" /\ frow = 0 /\ records_saved = 0 /\ fruns = 0
    /\ freturned = 0 /\ run_outcome = None /\ prev_outcome = None
    /\ same_data = FALSE /\ rows_before = 0
    /\ reported = [day \in Days |-> NoGain]
    /\ saved = [day \in Days |-> NoGain]
    /\ IdleHtml /\ IdleMail /\ IdleMetrics /\ IdlePost /\ IdlePub
    /\ IdleService /\ IdleShares /\ IdleUi
    /\ IdleAuth /\ IdleSingle /\ IdleCollect /\ IdleSegment /\ IdleGrowth
    /\ IdleEditor

NextFollowers ==
    \/ StartRun
    \/ RerunSameData
    \/ UpsertRow
    \/ Commit
    \/ Rollback

SpecFollowers == InitFollowers /\ [][NextFollowers]_vars

\* The rows of the table for a day.
RowsOf(rows, day) == {i \in 1..Len(rows) : rows[i].date = day}

\* The table holds, for every day, one row with the gain g, or none for NoGain.
TableHolds(g) ==
    \A day \in Days :
        IF g[day] = NoGain THEN RowsOf(fm_table, day) = {}
        ELSE \E i \in 1..Len(fm_table) :
                /\ RowsOf(fm_table, day) = {i}
                /\ fm_table[i].gain = g[day]

\* C15 as claimed: after any number of runs the table holds at most one row
\* per date, with the gains of the most recent run that reported the date,
\* and a run on the data of the run before it adds no row and returns 0.
C15_UpsertOfEveryRun ==
    /\ \A day \in Days : Cardinality(RowsOf(fm_table, day)) <= 1
    /\ fpc = "done" =>
          /\ TableHolds(reported)
          /\ same_data => freturned = 0 /\ Len(fm_table) = rows_before

\* C15 amended: the table holds at most one row per date, with the gains of
\* the most recent run with that date that was committed; a run that fails is
\* rolled back, leaves the table as it was and returns 0; a run on the data
\* of a committed run before it adds no row and returns 0.
C15_UpsertOfCommittedRuns ==
    /\ \A day \in Days : Cardinality(RowsOf(fm_table, day)) <= 1
    /\ TableHolds(saved)
    /\ fpc = "done" =>
          /\ run_outcome = "rolled_back" =>
                freturned = 0 /\ Len(fm_table) = rows_before
          /\ run_outcome = "committed" =>
                freturned = Len(fm_table) - rows_before
          /\ same_data /\ prev_outcome = "committed" =>
                freturned = 0 /\ Len(fm_table) = rows_before

\* A day's row was overwritten by a later run, and a rerun returned 0.
C15_Witness ==
    /\ fpc = "done" /\ fruns = 3
    /\ same_data /\ prev_outcome = "committed" /\ run_outcome = "committed"
    /\ Len(fm_table) = 2
    /\ \E i \in 1..2 : fm_table[i] = FollowerRow(1, 2)
    /\ df_growth = <<FollowerRow(1, 2)>>

\* Two rows of one day in one run left one row in the table.
C15_WitnessSameDayTwice ==
    /\ fpc = "done" /\ run_outcome = "committed"
    /\ df_growth = <<FollowerRow(1, 1), FollowerRow(1, 2)>>
    /\ fm_table = <<FollowerRow(1, 2)>>

\* ------------------------------------------------------------------------
\* auth.py: check_password and login_form
\* ------------------------------------------------------------------------
\* What the text inputs can hold.
UsernamesEntered == {"", "admin", "root"}

PasswordsEntered == {"", "s3cret", "wrong"}

\* os.getenv("APP_USERNAME", "admin")
correct_username == IF app_username = None THEN "admin" ELSE app_username

\* `if not correct_password: ... return` is not taken
PasswordConfiguredUnchecked == TRUE
PasswordConfigured == app_password # None /\ app_password # ""

\* `if "authenticated" not in st.session_state: ... = False`, then the value
Authenticated(ss) == "authenticated" \in DOMAIN ss /\ ss["authenticated"]

CheckReturn(seen, returned) == [authenticated |-> seen, returned |-> returned]

\* A run of the script without a click on the login button: check_password
\* returns True, or shows the form and returns False.
CheckPassword ==
    /\ script_runs < MaxScriptRuns
    /\ script_runs' = script_runs + 1
    /\ session_state' = [k \in {"authenticated"} |-> Authenticated(session_state)]
    /\ check_returns' = Append(check_returns,
           CheckReturn(Authenticated(session_state), Authenticated(session_state)))
    /\ UNCHANGED <<app_username, app_password, logins>>
    /\ AuthOnly

\* A run of the script started by "Iniciar Sesion": the form was shown, so
\* the session is not authenticated; login_form either sets authenticated
\* and reruns the script (check_password does not return), or reports an
\* error and check_password returns False.
SubmitLogin(username, password) ==
    /\ script_runs < MaxScriptRuns
    /\ "authenticated" \in DOMAIN session_state
    /\ ~Authenticated(session_state)
    /\ script_runs' = script_runs + 1
    /\ logins' = Append(logins, [username |-> username, password |-> password])
    /\ IF PasswordConfigured /\ username = correct_username
          /\ password = app_password
       THEN /\ session_state' = [session_state EXCEPT !["authenticated"] = TRUE]
            /\ UNCHANGED check_returns
       ELSE /\ check_returns' = Append(check_returns, CheckReturn(FALSE, FALSE))
            /\ UNCHANGED session_state
    /\ UNCHANGED <<app_username, app_password>>
    /\ AuthOnly

InitAuth ==
    /\ app_username \in {None, "", "root"}
    /\ app_password \in {None, "", "s3cret"}
    /\ session_state = <<>>
    /\ script_runs = 0
    /\ check_returns = <<>>
    /\ logins = <<>>
    /\ IdleFollowers /\ IdleHtml /\ IdleMail /\ IdleMetrics /\ IdlePost
    /\ IdlePub /\ IdleService /\ IdleShares /\ IdleUi
    /\ IdleSingle /\ IdleCollect /\ IdleSegment /\ IdleGrowth /\ IdleEditor

NextAuth ==
    \/ CheckPassword
    \/ \E u \in UsernamesEntered, p \in PasswordsEntered : SubmitLogin(u, p)

SpecAuth == InitAuth /\ [][NextAuth]_vars

\* A submission with the configured credentials.
RightCredentials(l) ==
    /\ app_password \notin {None, ""}
    /\ l.password = app_password
    /\ l.username = (IF app_username = None THEN "admin" ELSE app_username)

\* C16: check_password returns True iff the session is authenticated, and the
\* session is authenticated only after a login submission with APP_PASSWORD
\* configured (non-empty), the username equal to APP_USERNAME (default
\* admin) and the password equal to APP_PASSWORD; with APP_PASSWORD unset or
\* empty nothing authenticates.
C16_LoginGate ==
    /\ \A k \in 1..Len(check_returns) :
          check_returns[k].returned = check_returns[k].authenticated
    /\ Authenticated(session_state) =>
          /\ logins # <<>>
          /\ RightCredentials(logins[Len(logins)])
    /\ app_password \in {None, ""} => ~Authenticated(session_state)

\* A login with the default user name that was granted, after a refused one
\* (for which check_password returned False).
C16_Witness ==
    /\ app_username = None
    /\ Len(logins) = 2 /\ logins[2].username = "admin"
    /\ Authenticated(session_state)
    /\ check_returns # <<>>
    /\ ~check_returns[Len(check_returns)].returned

\* A check that returned True.
C16_WitnessReturnsTrue ==
    /\ check_returns # <<>>
    /\ check_returns[Len(check_returns)].returned

\* ---------------------------------------------------------------------
\* ui_components.py: display_post_editor, the buttons of "Programacion"
\* ---------------------------------------------------------------------

\* pd.Timedelta(minutes=1), in the unit of ed_time and ed_now.
Minute == 1

MediaIds == {"m1"}

StartsWithInstagram(pf) == pf = "Instagram"

\* The row update_post and link_media_to_post leave behind.
Updated(old, fecha_hora, linked, selected) ==
    [fecha_hora |-> fecha_hora, sent_at |-> NoTime,
     media |-> IF linked THEN selected ELSE old.media, rev |-> old.rev + 1]

\* update_post, link_media_to_post, st.cache_data.clear(), st.success and
\* the closing of the editor, common to both buttons. An exception of
\* either database call leaves the rest undone and is reported.
SaveAndClose(fecha_hora, success) ==
    \E outcome \in {"ok", "update_raises", "link_raises"} :
        /\ ed_post' = IF outcome = "update_raises" THEN ed_post
                      ELSE Updated(ed_post, fecha_hora, outcome = "ok",
                                   selected_media_ids)
        /\ ed_cache' = IF outcome = "ok" THEN FALSE ELSE ed_cache
        /\ selected_pub_id' = IF outcome = "ok" THEN None
                              ELSE selected_pub_id
        /\ ed_messages' = Append(ed_messages,
                                 IF outcome = "ok" THEN success
                                 ELSE "Error: " \o outcome)

\* "Actualizar y programar" (lines 226-252).
UpdateAndSchedule ==
    /\ edpc = "editor"
    /\ edpc' = "handled"
    /\ ed_button' = "update_prog_detail"
    /\ IF selected_media_ids = {} /\ StartsWithInstagram(ed_platform)
       THEN /\ ed_messages' = Append(ed_messages,
                    "Selecciona al menos un medio para Instagram")
            /\ UNCHANGED <<ed_post, ed_cache, selected_pub_id>>
       ELSE IF ~IsBound("fecha_hora_programada")
       THEN /\ ed_messages' = Append(ed_messages,
                    "Error: name 'fecha_hora_programada' is not defined")
            /\ UNCHANGED <<ed_post, ed_cache, selected_pub_id>>
       ELSE IF ed_time <= ed_now + Minute
       THEN /\ ed_messages' = Append(ed_messages,
                                     "La fecha debe ser futura")
            /\ UNCHANGED <<ed_post, ed_cache, selected_pub_id>>
       ELSE SaveAndClose(ed_time, "Programada")
    /\ UNCHANGED <<ed_platform, selected_media_ids, ed_time, ed_now>>
    /\ EditorOnly

\* "Actualizar sin programar" (lines 255-276).
UpdateWithoutSchedule ==
    /\ edpc = "editor"
    /\ edpc' = "handled"
    /\ ed_button' = "update_save_detail"
    /\ SaveAndClose(NoTime, "Guardado sin programar")
    /\ UNCHANGED <<ed_platform, selected_media_ids, ed_time, ed_now>>
    /\ EditorOnly

InitEditor ==
    /\ ed_platform \in Platforms
    /\ selected_media_ids \in SUBSET MediaIds
    /\ ed_time \in 1..MaxClock
    /\ ed_now \in 1..(MaxClock - 1)
    /\ ed_post \in [fecha_hora : 0..MaxClock, sent_at : {NoTime, 1},
                    media : SUBSET MediaIds, rev : {0}]
    /\ ed_cache \in BOOLEAN
    /\ selected_pub_id = "p1"
    /\ ed_messages = <<>>
    /\ ed_button = None
    /\ edpc = "editor"
    /\ IdleAuth /\ IdleCollect /\ IdleFollowers /\ IdleGrowth /\ IdleHtml
    /\ IdleMail /\ IdleMetrics /\ IdlePost /\ IdlePub /\ IdleSegment
    /\ IdleService /\ IdleShares /\ IdleSingle /\ IdleUi

NextEditor ==
    \/ UpdateAndSchedule
    \/ UpdateWithoutSchedule

SpecEditor == InitEditor /\ [][NextEditor]_vars

\* The press of "Actualizar y programar" the claim is about.
SchedulePressed == edpc = "handled" /\ ed_button = "update_prog_detail"

MediaGiven == StartsWithInstagram(ed_platform) => selected_media_ids # {}

\* C26: pressing "Actualizar y programar" with a schedule time later than
\* now + 1 minute (and, for Instagram, at least one selected medium)
\* persists the post with fecha_hora set to that time and sent_at = None,
\* links the selected media, clears the data cache and closes the editor;
\* with a time not later than now + 1 minute the error
\* "La fecha debe ser futura" is shown and the post is not updated.
C26_ScheduleFromEditor ==
    (SchedulePressed /\ MediaGiven) =>
        IF ed_time > ed_now + Minute
        THEN /\ ed_post.fecha_hora = ed_time
             /\ ed_post.sent_at = NoTime
             /\ ed_post.media = selected_media_ids
             /\ ~ed_cache
             /\ selected_pub_id = None
        ELSE /\ ed_messages = <<"La fecha debe ser futura">>
             /\ ed_post.rev = 0

\* What the button does instead: whatever the schedule time, the post
\* keeps its row, the cache and the editor stay as they were, and the
\* message is the Instagram warning or the report of the NameError.
ScheduleNeverPersists ==
    SchedulePressed =>
        /\ ed_post.rev = 0
        /\ selected_pub_id = "p1"
        /\ ed_messages \in
             {<<"Selecciona al menos un medio para Instagram">>,
              <<"Error: name 'fecha_hora_programada' is not defined">>}

\* The press with a schedule time later than now + 1 minute on a post
\* that was not scheduled, with filled cache.
FutureSchedulePressed ==
    /\ SchedulePressed /\ MediaGiven
    /\ ed_time > ed_now + Minute
    /\ ed_post.fecha_hora = NoTime
    /\ ed_cache

\* The press with a schedule time not later than now + 1 minute.
PastSchedulePressed ==
    /\ SchedulePressed /\ MediaGiven
    /\ ed_time <= ed_now + Minute
    /\ ed_messages # <<"La fecha debe ser futura">>

====
